---- MODULE Spec2Model ----
(***************************************************************************)
(* JWTLocalValidator (src/app/utils/auth/jwt_local_validator.py): the      *)
(* token validation subsystem of ml-user-service.  One validator instance, *)
(* its three TTL caches, its lazily created HTTP client, and the facade    *)
(* operations, called one after the other.  The issuer's three endpoints,  *)
(* the local revocation store and the clock are the environment.           *)
(*                                                                         *)
(* Python values: a dict is a function on strings (a record), a missing    *)
(* key is a string outside its DOMAIN, Optional[x] is <<>> or <<x>>.       *)
(***************************************************************************)
EXTENDS Integers, Sequences, FiniteSets, TLC

VARIABLES
    use_local,             \* self.use_local, fixed at construction
    jwks_cache,            \* self._jwks_cache            (Optional)
    jwks_cache_time,       \* self._jwks_cache_time       (Optional)
    config_cache,          \* self._config_cache          (Optional)
    config_cache_time,     \* self._config_cache_time     (Optional)
    blacklist_cache,       \* self._blacklist_cache       (Optional)
    blacklist_cache_time,  \* self._blacklist_cache_time  (Optional)
    client,                \* self._client                (Optional)
    now,                   \* datetime.utcnow(), in seconds
    op,                    \* the operation the last step performed
    tok,                   \* the token that operation was given
    res,                   \* what that operation gave its caller
    calls,                 \* what that operation contacted or ran
    threads,               \* the calls in progress on worker threads, step by step
    served,                \* history: the values the _fetch_* methods have returned
    clients                \* history: the clients created so far, each "open" or "closed"

vars == <<use_local, jwks_cache, jwks_cache_time, config_cache, config_cache_time,
          blacklist_cache, blacklist_cache_time, client, now, op, tok, res, calls,
          threads, served, clients>>

-----------------------------------------------------------------------------
(* Bounds of the model *)

\* the clock runs from 0 to MaxTime
MaxTime == 2
\* JWTLocalValidator(cache_ttl=...), in seconds (the program's default is 3600)
cache_ttl == 2
\* JWTLocalValidator(blacklist_cache_ttl=...), in seconds (the default is 300)
blacklist_cache_ttl == 1

-----------------------------------------------------------------------------
(* Python values *)

None == <<>>
Some(x) == <<x>>
\* None where a string is expected
PyNone == "<None>"
EmptyDict == [x \in {} |-> ""]
\* dict.get(key, default)
Get(d, key, default) == IF key \in DOMAIN d THEN d[key] ELSE default
\* a dict without one key
Without(d, key) == [x \in DOMAIN d \ {key} |-> d[x]]
\* a dict with one key set
With(d, key, value) == [x \in DOMAIN d \cup {key} |-> IF x = key THEN value ELSE d[x]]

-----------------------------------------------------------------------------
(* settings *)

jwt_secret_key == "your-secret-key"
jwt_algorithm == "HS256"
app_name == "ml-user-service"
auth_jwks_endpoint == "/api/v1/jwt/.well-known/jwks.json"
auth_jwt_config_endpoint == "/api/v1/jwt/jwt-config"
auth_blacklist_endpoint == "/api/v1/jwt/blacklist"

\* the signing secrets that occur: the service's own and a foreign one
Secrets == {jwt_secret_key, "other-key"}

\* base64.urlsafe_b64encode(s.encode("utf-8")).decode("utf-8").rstrip("=")
UrlsafeB64Encode(s) ==
    CASE s = "your-secret-key" -> "eW91ci1zZWNyZXQta2V5"
      [] s = "other-key" -> "b3RoZXIta2V5"
      [] OTHER -> ""

\* k += "=" * (4 - len(k) % 4); base64.urlsafe_b64decode(k).decode("utf-8")
UrlsafeB64Decode(k) ==
    IF \E s \in Secrets : UrlsafeB64Encode(s) = k
    THEN CHOOSE s \in Secrets : UrlsafeB64Encode(s) = k
    ELSE ""

-----------------------------------------------------------------------------
(* Tokens.  A token is the string header.payload.signature; the model keeps *)
(* what jwt.decode reads from it: the secret it was signed with, the       *)
(* header's alg and the payload dict.  roles is "[admin]" for the list      *)
(* ["admin"] and "admin" for the string "admin".                            *)

JsonLists == {"[admin]", "[]"}
\* IsList taking null for a list
IsListOrNull(x) == x \in JsonLists \cup {PyNone}

\* isinstance(x, list)
IsList(x) == x \in JsonLists

GoodToken ==
    [key |-> jwt_secret_key,
     alg |-> jwt_algorithm,
     payload |-> [sub |-> "u1", username |-> "alice", roles |-> "[admin]",
                  exp |-> MaxTime + 1, iat |-> 0, iss |-> app_name,
                  aud |-> "microservices", jti |-> "a"]]

TokenEdits ==
    {"none", "other_key", "other_iss", "other_aud", "exp_1", "no_exp", "no_sub",
     "no_username", "no_roles", "roles_str", "inactive", "refresh", "empty_type"}

EditToken(t, e) ==
    CASE e = "other_key"   -> [t EXCEPT !.key = "other-key"]
      [] e = "other_iss"   -> [t EXCEPT !.payload = With(@, "iss", "evil")]
      [] e = "other_aud"   -> [t EXCEPT !.payload = With(@, "aud", "elsewhere")]
      [] e = "exp_1"       -> [t EXCEPT !.payload = With(@, "exp", 1)]
      [] e = "no_exp"      -> [t EXCEPT !.payload = Without(@, "exp")]
      [] e = "no_sub"      -> [t EXCEPT !.payload = Without(@, "sub")]
      [] e = "no_username" -> [t EXCEPT !.payload = Without(@, "username")]
      [] e = "no_roles"    -> [t EXCEPT !.payload = Without(@, "roles")]
      [] e = "roles_str"   -> [t EXCEPT !.payload = With(@, "roles", "admin")]
      [] e = "inactive"    -> [t EXCEPT !.payload = With(@, "is_active", FALSE)]
      [] e = "refresh"     -> [t EXCEPT !.payload = With(@, "type", "refresh")]
      [] e = "empty_type"  -> [t EXCEPT !.payload = With(@, "type", "")]
      [] e = "roles_null"  -> [t EXCEPT !.payload = With(@, "roles", PyNone)]
      [] e = "roles_number" -> [t EXCEPT !.payload = With(@, "roles", "7")]
      [] e = "profile"     ->
             [t EXCEPT !.payload =
                  [x \in DOMAIN @ \cup {"email", "phone", "full_name", "is_superuser",
                                        "is_active", "type"} |->
                      CASE x = "email" -> "alice@example.com"
                        [] x = "phone" -> "555-0100"
                        [] x = "full_name" -> "Alice A"
                        [] x = "is_superuser" -> TRUE
                        [] x = "is_active" -> TRUE
                        [] x = "type" -> "access"
                        [] OTHER -> @[x]]]
      [] OTHER             -> t

\* the same claims in a second token (another jti): the ones the issuer revokes
RevocableToken == [GoodToken EXCEPT !.payload = With(@, "jti", "b")]

RevokedEdits == {"none", "other_key", "roles_str", "inactive", "refresh", "empty_type"}

RevokedTokens == {EditToken(RevocableToken, e) : e \in RevokedEdits}

\* further single changes: roles that is null or a number, and a token that carries
\* every claim the result reports
ExtraEdits == {"roles_null", "roles_number", "profile"}

\* the tokens callers present: the good token with up to two claims changed
Tokens ==
    {EditToken(EditToken(GoodToken, e1), e2) : e1, e2 \in TokenEdits}
        \cup RevokedTokens
        \cup {EditToken(GoodToken, e) : e \in ExtraEdits}

NoToken == [key |-> "", alg |-> "", payload |-> EmptyDict]

\* a string that is no JWT
MalformedToken == [key |-> "", alg |-> "", payload |-> EmptyDict, malformed |-> TRUE]

\* the strings callers give to the expiry helpers
ExpiryTokens == Tokens \cup {MalformedToken}

\* hashlib.sha256(token.encode()).hexdigest(): one digest per token string
Sha256(t) == <<"sha256", t>>

-----------------------------------------------------------------------------
(* The issuer's documents and the HTTP responses of its endpoints *)

OctKey(secret) ==
    [kty |-> "oct", k |-> UrlsafeB64Encode(secret), alg |-> jwt_algorithm,
     use |-> "sig", kid |-> "user-service-key-1"]

RsaKey == [kty |-> "RSA", n |-> "0vx7", e |-> "AQAB", kid |-> "rsa-1"]

\* an oct entry whose key bytes are empty
EmptyOctKey == [OctKey(jwt_secret_key) EXCEPT !.k = "", !.kid = "retired-key"]

JwksDocs ==
    {[keys |-> <<OctKey(jwt_secret_key)>>],
     [keys |-> <<EmptyOctKey, OctKey(jwt_secret_key)>>],
     [keys |-> <<RsaKey, OctKey("other-key")>>],
     [keys |-> <<RsaKey>>]}

IssuerConfig == [algorithm |-> jwt_algorithm, issuer |-> app_name, audience |-> "microservices"]

\* the config endpoint answers the document, or the document wrapped in {data: ...}
ConfigBodies ==
    {IssuerConfig,
     [data |-> IssuerConfig],
     [issuer |-> "partner", audience |-> "microservices"]}

\* a truthy JSON value that is no list (a number), where blacklisted_tokens is read
NotIterable == <<<<"number", NoToken>>>>

IssuerBlacklists ==
    {<<>>,
     NotIterable,
     <<Sha256(RevocableToken)>>,
     <<Sha256(EditToken(RevocableToken, "roles_str")),
       Sha256(EditToken(RevocableToken, "other_key")),
       Sha256(EditToken(RevocableToken, "inactive")),
       Sha256(EditToken(RevocableToken, "refresh")),
       Sha256(EditToken(RevocableToken, "empty_type")),
       Sha256(RevocableToken)>>}

\* the blacklist endpoint answers {data: {blacklisted_tokens: [...]}}, or a body
\* without the list
BlacklistBodies ==
    {[data |-> [blacklisted_tokens |-> l]] : l \in IssuerBlacklists}
        \cup {[data |-> [total |-> 0]]}

\* client.get(url): a response with a status code and a JSON body, or an exception
Http200(body) == [exc |-> FALSE, status_code |-> 200, json |-> body]
Http500 == [exc |-> FALSE, status_code |-> 500, json |-> EmptyDict]
TransportError == [exc |-> TRUE, status_code |-> 0, json |-> EmptyDict]

Responses(bodies) == {Http200(b) : b \in bodies} \cup {Http500, TransportError}

-----------------------------------------------------------------------------
(* The validator's fields, passed through the methods as one record; calls *)
(* logs, in order, what the running operation contacted or ran, and each   *)
(* failure of what it contacted.                                           *)

Self ==
    [jwks_cache |-> jwks_cache, jwks_cache_time |-> jwks_cache_time,
     config_cache |-> config_cache, config_cache_time |-> config_cache_time,
     blacklist_cache |-> blacklist_cache, blacklist_cache_time |-> blacklist_cache_time,
     client |-> client, calls |-> <<>>]

\* x in list
InList(x, list) == \E i \in DOMAIN list : list[i] = x

\* the log with one more entry
Logged(self, entry) == [self EXCEPT !.calls = Append(@, entry)]

\* _get_client: the client is created on first use
GetClient(self) ==
    IF self.client = None THEN [self EXCEPT !.client = Some("httpx.Client")] ELSE self

\* IsCacheValid keeping a value for one second too long
IsCacheValidInclusive(cache_time) ==
    IF cache_time = None THEN FALSE ELSE now - cache_time[1] <= cache_ttl

\* _is_cache_valid
IsCacheValid(cache_time) ==
    IF cache_time = None THEN FALSE ELSE now - cache_time[1] < cache_ttl

\* what a method gives back: a value, or the exception it raises
Returns(self, value) ==
    [self |-> self, exc |-> "none", value |-> Some(value), error_code |-> "",
     details |-> EmptyDict]
Raises(self, exc, error_code, details) ==
    [self |-> self, exc |-> exc, value |-> None, error_code |-> error_code,
     details |-> details]

\* FetchJwks answering an empty document where the fetch failed
FetchJwksSwallow(self, response) ==
    LET s1 == Logged(GetClient(self), "jwks")
    IN  IF response.exc
        THEN Returns(Logged(s1, "jwks_failed"), EmptyDict)
        ELSE IF response.status_code = 200
        THEN Returns(s1, response.json)
        ELSE Returns(Logged(s1, "jwks_failed"), EmptyDict)

\* _fetch_jwks
FetchJwks(self, response) ==
    LET s1 == Logged(GetClient(self), "jwks")
    IN  IF response.exc
        THEN Raises(Logged(s1, "jwks_failed"), "JWTValidationError",
                    "JWKS_FETCH_EXCEPTION", EmptyDict)
        ELSE IF response.status_code = 200
        THEN Returns(s1, response.json)
        ELSE Raises(Logged(s1, "jwks_failed"), "JWTValidationError", "JWKS_FETCH_ERROR",
                    [status_code |-> response.status_code, url |-> auth_jwks_endpoint])

\* _fetch_jwt_config
FetchJwtConfig(self, response) ==
    LET s1 == Logged(GetClient(self), "config")
    IN  IF response.exc
        THEN Raises(Logged(s1, "config_failed"), "JWTValidationError",
                    "CONFIG_FETCH_EXCEPTION", EmptyDict)
        ELSE IF response.status_code = 200
        THEN Returns(s1, Get(response.json, "data", response.json))
        ELSE Raises(Logged(s1, "config_failed"), "JWTValidationError", "CONFIG_FETCH_ERROR",
                    [status_code |-> response.status_code, url |-> auth_jwt_config_endpoint])

\* FetchBlacklist answering the list cached before where the fetch failed
FetchBlacklistStaleOnError(self, response) ==
    LET s1 == Logged(GetClient(self), "blacklist")
        stale == IF self.blacklist_cache = None THEN <<>> ELSE self.blacklist_cache[1]
    IN  IF response.exc
        THEN Returns(Logged(s1, "blacklist_failed"), stale)
        ELSE IF response.status_code = 200
        THEN Returns(s1, Get(Get(response.json, "data", EmptyDict), "blacklisted_tokens", <<>>))
        ELSE Returns(Logged(s1, "blacklist_failed"), stale)

\* _fetch_blacklist: every failure answers the empty list
FetchBlacklist(self, response) ==
    LET s1 == Logged(GetClient(self), "blacklist")
    IN  IF response.exc
        THEN Returns(Logged(s1, "blacklist_failed"), <<>>)
        ELSE IF response.status_code = 200
        THEN Returns(s1, Get(Get(response.json, "data", EmptyDict), "blacklisted_tokens", <<>>))
        ELSE Returns(Logged(s1, "blacklist_failed"), <<>>)

\* _get_local_config
GetLocalConfig ==
    [algorithm |-> jwt_algorithm, issuer |-> app_name, audience |-> "microservices"]

\* _get_local_jwks
GetLocalJwks ==
    [keys |-> <<[kty |-> "oct", k |-> UrlsafeB64Encode(jwt_secret_key),
                 alg |-> jwt_algorithm, use |-> "sig", kid |-> "user-service-key-1"]>>]

\* GetBlacklistCache leaving the cache as it was where the fetch failed
GetBlacklistCacheSkipFailed(self, response) ==
    IF ~IsCacheValid(self.blacklist_cache_time)
    THEN LET f == FetchBlacklist(self, response)
         IN  IF InList("blacklist_failed", f.self.calls)
             THEN Returns(f.self, f.value[1])
             ELSE Returns([f.self EXCEPT !.blacklist_cache = f.value,
                                         !.blacklist_cache_time = Some(now)],
                          f.value[1])
    ELSE Returns(self, IF self.blacklist_cache = None THEN <<>> ELSE self.blacklist_cache[1])

\* _get_blacklist_cache; the value is self._blacklist_cache or []
GetBlacklistCache(self, response) ==
    IF ~IsCacheValid(self.blacklist_cache_time)
    THEN LET f == FetchBlacklist(self, response)
         IN  Returns([f.self EXCEPT !.blacklist_cache = f.value,
                                    !.blacklist_cache_time = Some(now)],
                     f.value[1])
    ELSE Returns(self, IF self.blacklist_cache = None THEN <<>> ELSE self.blacklist_cache[1])

\* GetJwks answering the expired document where the fetch failed
GetJwksStaleOnError(self, response) ==
    IF use_local
    THEN Returns(self, GetLocalJwks)
    ELSE IF ~IsCacheValid(self.jwks_cache_time)
    THEN LET f == FetchJwks(self, response)
         IN  IF f.exc # "none"
             THEN IF self.jwks_cache = None THEN f
                  ELSE [Returns(f.self, EmptyDict) EXCEPT !.value = self.jwks_cache]
             ELSE [f EXCEPT !.self = [f.self EXCEPT !.jwks_cache = f.value,
                                                    !.jwks_cache_time = Some(now)]]
    ELSE [Returns(self, EmptyDict) EXCEPT !.value = self.jwks_cache]

\* GetJwks fetching the key-set whatever the mode
GetJwksIgnoresMode(self, response) ==
    IF ~IsCacheValid(self.jwks_cache_time)
    THEN LET f == FetchJwks(self, response)
         IN  IF f.exc # "none"
             THEN f
             ELSE [f EXCEPT !.self = [f.self EXCEPT !.jwks_cache = f.value,
                                                    !.jwks_cache_time = Some(now)]]
    ELSE [Returns(self, EmptyDict) EXCEPT !.value = self.jwks_cache]

\* get_jwks; the value is self._jwks_cache as it stands
GetJwks(self, response) ==
    IF use_local
    THEN Returns(self, GetLocalJwks)
    ELSE IF ~IsCacheValid(self.jwks_cache_time)
    THEN LET f == FetchJwks(self, response)
         IN  IF f.exc # "none"
             THEN f
             ELSE [f EXCEPT !.self = [f.self EXCEPT !.jwks_cache = f.value,
                                                    !.jwks_cache_time = Some(now)]]
    ELSE [Returns(self, EmptyDict) EXCEPT !.value = self.jwks_cache]

\* get_jwt_config; the value is self._config_cache as it stands
GetJwtConfig(self, response) ==
    IF use_local
    THEN Returns(self, GetLocalConfig)
    ELSE IF ~IsCacheValid(self.config_cache_time)
    THEN LET f == FetchJwtConfig(self, response)
         IN  IF f.exc # "none"
             THEN f
             ELSE [f EXCEPT !.self = [f.self EXCEPT !.config_cache = f.value,
                                                    !.config_cache_time = Some(now)]]
    ELSE [Returns(self, EmptyDict) EXCEPT !.value = self.config_cache]

\* IsTokenBlacklisted comparing the fingerprint with the head of the list only
IsTokenBlacklistedHead(self, token, response) ==
    LET b == GetBlacklistCache(self, response)
    IN  IF b.value[1] = NotIterable
        THEN Returns(Logged(b.self, "blacklist_check_failed"), FALSE)
        ELSE Returns(b.self, b.value[1] # <<>> /\ b.value[1][1] = Sha256(token))

\* IsTokenBlacklisted answering True where the check raised
IsTokenBlacklistedFailClosed(self, token, response) ==
    LET b == GetBlacklistCache(self, response)
    IN  IF b.value[1] = NotIterable
        THEN Returns(Logged(b.self, "blacklist_check_failed"), TRUE)
        ELSE Returns(b.self, InList(Sha256(token), b.value[1]))

\* _is_token_blacklisted: an exception of the check (token_hash in blacklist raises
\* TypeError on a value that is no list) answers False
IsTokenBlacklisted(self, token, response) ==
    LET b == GetBlacklistCache(self, response)
    IN  IF b.value[1] = NotIterable
        THEN Returns(Logged(b.self, "blacklist_check_failed"), FALSE)
        ELSE Returns(b.self, InList(Sha256(token), b.value[1]))

-----------------------------------------------------------------------------
(* The verification pipeline *)

\* not x, for the strings and None
Falsy(x) == x \in {PyNone, ""}

\* JwtDecode without the check of the signature
JwtDecodeNoSignature(self, token, key, algorithms, issuer, audience) ==
    LET s1 == Logged(self, "decode")
        p == token.payload
    IN  IF /\ token.alg \in algorithms
           /\ ("exp" \in DOMAIN p => ~(p.exp < now))
           /\ ("aud" \in DOMAIN p => p.aud = audience)
           /\ (issuer # PyNone => Get(p, "iss", PyNone) = issuer)
        THEN Returns(s1, p)
        ELSE Raises(s1, "JWTError", "", EmptyDict)

\* jose.jwt.decode(token, key, algorithms, issuer, audience) with verify_signature,
\* verify_exp, verify_iat, verify_iss, verify_aud: the payload, or JWTError.  A claim
\* the token does not carry is not checked (exp and aud included); the token is
\* expired when exp < now.
JwtDecode(self, token, key, algorithms, issuer, audience) ==
    LET s1 == Logged(self, "decode")
        p == token.payload
    IN  IF /\ token.key = key
           /\ token.alg \in algorithms
           /\ ("exp" \in DOMAIN p => ~(p.exp < now))
           /\ ("aud" \in DOMAIN p => p.aud = audience)
           /\ (issuer # PyNone => Get(p, "iss", PyNone) = issuer)
        THEN Returns(s1, p)
        ELSE Raises(s1, "JWTError", "", EmptyDict)

\* MissingField looking for roles first
MissingFieldRolesFirst(payload) ==
    IF "roles" \notin DOMAIN payload THEN "roles"
    ELSE IF "sub" \notin DOMAIN payload THEN "sub"
    ELSE IF "username" \notin DOMAIN payload THEN "username"
    ELSE PyNone

\* the first field of required_fields that payload lacks, or None
MissingField(payload) ==
    IF "sub" \notin DOMAIN payload THEN "sub"
    ELSE IF "username" \notin DOMAIN payload THEN "username"
    ELSE IF "roles" \notin DOMAIN payload THEN "roles"
    ELSE PyNone

\* ValidatePayloadFields without the isinstance check of roles
ValidatePayloadFieldsNoListCheck(self, payload) ==
    IF MissingField(payload) # PyNone
    THEN Raises(self, "JWTValidationError", "MISSING_REQUIRED_FIELD",
                [missing_field |-> MissingField(payload)])
    ELSE IF ~Get(payload, "is_active", TRUE)
    THEN Raises(self, "JWTValidationError", "USER_INACTIVE",
                [user_id |-> Get(payload, "sub", PyNone)])
    ELSE Returns(self, PyNone)

\* ValidatePayloadFields taking a user without the is_active claim for disabled
ValidatePayloadFieldsActiveRequired(self, payload) ==
    IF MissingField(payload) # PyNone
    THEN Raises(self, "JWTValidationError", "MISSING_REQUIRED_FIELD",
                [missing_field |-> MissingField(payload)])
    ELSE IF ~IsList(Get(payload, "roles", PyNone))
    THEN Raises(self, "JWTValidationError", "INVALID_FIELD_TYPE",
                [field |-> "roles", expected_type |-> "list"])
    ELSE IF ~Get(payload, "is_active", FALSE)
    THEN Raises(self, "JWTValidationError", "USER_INACTIVE",
                [user_id |-> Get(payload, "sub", PyNone)])
    ELSE Returns(self, PyNone)

\* _validate_payload_fields
ValidatePayloadFields(self, payload) ==
    IF MissingField(payload) # PyNone
    THEN Raises(self, "JWTValidationError", "MISSING_REQUIRED_FIELD",
                [missing_field |-> MissingField(payload)])
    ELSE IF ~IsList(Get(payload, "roles", PyNone))
    THEN Raises(self, "JWTValidationError", "INVALID_FIELD_TYPE",
                [field |-> "roles", expected_type |-> "list"])
    ELSE IF ~Get(payload, "is_active", TRUE)
    THEN Raises(self, "JWTValidationError", "USER_INACTIVE",
                [user_id |-> Get(payload, "sub", PyNone)])
    ELSE Returns(self, PyNone)

\* if token_type and token_type != "access"
WrongTokenType(token_type) == ~Falsy(token_type) /\ token_type # "access"

InvalidTokenTypeResult(token_type) ==
    [success |-> FALSE,
     data |-> [valid |-> FALSE, reason |-> "wrong_token_type",
               error_code |-> "INVALID_TOKEN_TYPE", expected_type |-> "access",
               actual_type |-> token_type]]

TokenBlacklistedResult ==
    [success |-> FALSE,
     data |-> [valid |-> FALSE, reason |-> "token_blacklisted",
               error_code |-> "TOKEN_BLACKLISTED"]]

\* SuccessResult reporting the username as the user id and every user as no superuser
SuccessResultSwapped(payload) ==
    [success |-> TRUE,
     data |-> [valid |-> TRUE,
               user_id |-> Get(payload, "username", PyNone),
               username |-> Get(payload, "username", PyNone),
               roles |-> Get(payload, "roles", "[]"),
               email |-> Get(payload, "email", PyNone),
               phone |-> Get(payload, "phone", PyNone),
               full_name |-> Get(payload, "full_name", PyNone),
               is_superuser |-> FALSE,
               is_active |-> Get(payload, "is_active", TRUE),
               exp |-> Get(payload, "exp", PyNone),
               iat |-> Get(payload, "iat", PyNone),
               iss |-> Get(payload, "iss", PyNone),
               aud |-> Get(payload, "aud", PyNone)]]

\* the dict of a successful verification
SuccessResult(payload) ==
    [success |-> TRUE,
     data |-> [valid |-> TRUE,
               user_id |-> Get(payload, "sub", PyNone),
               username |-> Get(payload, "username", PyNone),
               roles |-> Get(payload, "roles", "[]"),
               email |-> Get(payload, "email", PyNone),
               phone |-> Get(payload, "phone", PyNone),
               full_name |-> Get(payload, "full_name", PyNone),
               is_superuser |-> Get(payload, "is_superuser", FALSE),
               is_active |-> Get(payload, "is_active", TRUE),
               exp |-> Get(payload, "exp", PyNone),
               iat |-> Get(payload, "iat", PyNone),
               iss |-> Get(payload, "iss", PyNone),
               aud |-> Get(payload, "aud", PyNone)]]

\* ExceptHandlers without the last clause, except Exception
ExceptHandlersNoCatchAll(r) ==
    IF r.exc = "CancelledError" THEN r
    ELSE IF r.exc = "JWTValidationError"
    THEN Returns(r.self,
                 [success |-> FALSE,
                  data |-> [valid |-> FALSE, reason |-> "validation_error",
                            error_code |-> r.error_code, details |-> r.details]])
    ELSE IF r.exc = "JWTError"
    THEN Returns(r.self,
                 [success |-> FALSE,
                  data |-> [valid |-> FALSE, reason |-> "jwt_error",
                            error_code |-> "JWT_DECODE_ERROR"]])
    ELSE r

\* ExceptHandlers catching BaseException in its last clause
ExceptHandlersCatchBase(r) ==
    IF r.exc = "JWTValidationError"
    THEN Returns(r.self,
                 [success |-> FALSE,
                  data |-> [valid |-> FALSE, reason |-> "validation_error",
                            error_code |-> r.error_code, details |-> r.details]])
    ELSE IF r.exc = "JWTError"
    THEN Returns(r.self,
                 [success |-> FALSE,
                  data |-> [valid |-> FALSE, reason |-> "jwt_error",
                            error_code |-> "JWT_DECODE_ERROR"]])
    ELSE Returns(r.self,
                 [success |-> FALSE,
                  data |-> [valid |-> FALSE, reason |-> "exception",
                            error_code |-> "VALIDATION_EXCEPTION"]])

\* the except clauses of verify_token and _verify_token_local_async: every Exception
\* becomes a result dict; asyncio.CancelledError is a BaseException and passes
ExceptHandlers(r) ==
    IF r.exc = "CancelledError" THEN r
    ELSE IF r.exc = "JWTValidationError"
    THEN Returns(r.self,
                 [success |-> FALSE,
                  data |-> [valid |-> FALSE, reason |-> "validation_error",
                            error_code |-> r.error_code, details |-> r.details]])
    ELSE IF r.exc = "JWTError"
    THEN Returns(r.self,
                 [success |-> FALSE,
                  data |-> [valid |-> FALSE, reason |-> "jwt_error",
                            error_code |-> "JWT_DECODE_ERROR"]])
    ELSE Returns(r.self,
                 [success |-> FALSE,
                  data |-> [valid |-> FALSE, reason |-> "exception",
                            error_code |-> "VALIDATION_EXCEPTION"]])

\* the loop of verify_token over jwks.get("keys", []): the first oct entry decides
RECURSIVE SecretKeyFrom(_, _)
SecretKeyFrom(keys, i) ==
    IF i > Len(keys) THEN PyNone
    ELSE IF Get(keys[i], "kty", PyNone) = "oct"
    THEN UrlsafeB64Decode(Get(keys[i], "k", ""))
    ELSE SecretKeyFrom(keys, i + 1)

UseAsyncResult ==
    [success |-> FALSE,
     data |-> [valid |-> FALSE, reason |-> "use_async",
               error_code |-> "USE_VERIFY_TOKEN_ASYNC"]]

NoSecretKeyResult ==
    [success |-> FALSE,
     data |-> [valid |-> FALSE, reason |-> "no_key", error_code |-> "NO_SECRET_KEY"]]

\* VerifyToken asking the revocation oracle before the token-type check
VerifyTokenRevocationFirst(self, token, rc, rj, rb) ==
    IF use_local THEN Returns(self, UseAsyncResult)
    ELSE
    LET c == GetJwtConfig(self, rc)
    IN  IF c.exc # "none" THEN ExceptHandlers(c)
        ELSE IF c.value = None
        THEN ExceptHandlers(Raises(c.self, "Exception", "", EmptyDict))
        ELSE
    LET config == c.value[1]
        algorithm == Get(config, "algorithm", "HS256")
        issuer == Get(config, "issuer", PyNone)
        audience == Get(config, "audience", PyNone)
        j == GetJwks(c.self, rj)
    IN  IF j.exc # "none" THEN ExceptHandlers(j)
        ELSE IF j.value = None
        THEN ExceptHandlers(Raises(j.self, "Exception", "", EmptyDict))
        ELSE
    LET secret_key == SecretKeyFrom(Get(j.value[1], "keys", <<>>), 1)
    IN  IF Falsy(secret_key) THEN Returns(j.self, NoSecretKeyResult)
        ELSE
    LET d == JwtDecode(j.self, token, secret_key, {algorithm}, issuer, audience)
    IN  IF d.exc # "none" THEN ExceptHandlers(d)
        ELSE
    LET payload == d.value[1]
        v == ValidatePayloadFields(d.self, payload)
        token_type == Get(payload, "type", PyNone)
    IN  IF v.exc # "none" THEN ExceptHandlers(v)
        ELSE
    LET b == IsTokenBlacklisted(v.self, token, rb)
    IN  IF b.value[1]
        THEN Returns(b.self, TokenBlacklistedResult)
        ELSE IF WrongTokenType(token_type)
        THEN Returns(b.self, InvalidTokenTypeResult(token_type))
        ELSE Returns(b.self, SuccessResult(payload))

\* VerifyToken running the pipeline in Local mode too, without the sentinel
VerifyTokenNoSentinel(self, token, rc, rj, rb) ==
    LET c == GetJwtConfig(self, rc)
    IN  IF c.exc # "none" THEN ExceptHandlers(c)
        ELSE IF c.value = None
        THEN ExceptHandlers(Raises(c.self, "Exception", "", EmptyDict))
        ELSE
    LET config == c.value[1]
        algorithm == Get(config, "algorithm", "HS256")
        issuer == Get(config, "issuer", PyNone)
        audience == Get(config, "audience", PyNone)
        j == GetJwks(c.self, rj)
    IN  IF j.exc # "none" THEN ExceptHandlers(j)
        ELSE IF j.value = None
        THEN ExceptHandlers(Raises(j.self, "Exception", "", EmptyDict))
        ELSE
    LET secret_key == SecretKeyFrom(Get(j.value[1], "keys", <<>>), 1)
    IN  IF Falsy(secret_key) THEN Returns(j.self, NoSecretKeyResult)
        ELSE
    LET d == JwtDecode(j.self, token, secret_key, {algorithm}, issuer, audience)
    IN  IF d.exc # "none" THEN ExceptHandlers(d)
        ELSE
    LET payload == d.value[1]
        v == ValidatePayloadFields(d.self, payload)
        token_type == Get(payload, "type", PyNone)
    IN  IF v.exc # "none" THEN ExceptHandlers(v)
        ELSE IF WrongTokenType(token_type)
        THEN Returns(v.self, InvalidTokenTypeResult(token_type))
        ELSE
    LET b == IsTokenBlacklisted(v.self, token, rb)
    IN  IF b.value[1]
        THEN Returns(b.self, TokenBlacklistedResult)
        ELSE Returns(b.self, SuccessResult(payload))

\* verify_token after the revocation check b: the rejection or the success result
VerifyTokenChecked(payload, b) ==
    IF b.value[1]
    THEN Returns(b.self, TokenBlacklistedResult)
    ELSE Returns(b.self, SuccessResult(payload))

\* VerifyTokenValidated looking at the token type before the outcome of the payload
\* validation
VerifyTokenValidatedTypeFirst(token, rb, payload, token_type, v) ==
    IF WrongTokenType(token_type)
    THEN Returns(v.self, InvalidTokenTypeResult(token_type))
    ELSE IF v.exc # "none" THEN ExceptHandlers(v)
    ELSE VerifyTokenChecked(payload, IsTokenBlacklisted(v.self, token, rb))

\* verify_token after the payload validation v: the token type, then the revocation check
VerifyTokenValidated(token, rb, payload, token_type, v) ==
    IF v.exc # "none" THEN ExceptHandlers(v)
    ELSE IF WrongTokenType(token_type)
    THEN Returns(v.self, InvalidTokenTypeResult(token_type))
    ELSE VerifyTokenChecked(payload, IsTokenBlacklisted(v.self, token, rb))

\* verify_token after jwt.decode d: the payload validation
VerifyTokenDecoded(token, rb, d) ==
    IF d.exc # "none" THEN ExceptHandlers(d)
    ELSE VerifyTokenValidated(token, rb, d.value[1], Get(d.value[1], "type", PyNone),
                              ValidatePayloadFields(d.self, d.value[1]))

\* verify_token after the key loop: no key, or jwt.decode with the key and the config
VerifyTokenWithKey(self, token, rb, config, secret_key) ==
    IF Falsy(secret_key) THEN Returns(self, NoSecretKeyResult)
    ELSE VerifyTokenDecoded(token, rb,
             JwtDecode(self, token, secret_key, {Get(config, "algorithm", "HS256")},
                       Get(config, "issuer", PyNone), Get(config, "audience", PyNone)))

\* verify_token after get_jwks j: the key loop
VerifyTokenWithJwks(token, rb, config, j) ==
    IF j.exc # "none" THEN ExceptHandlers(j)
    ELSE IF j.value = None
    THEN ExceptHandlers(Raises(j.self, "Exception", "", EmptyDict))
    ELSE VerifyTokenWithKey(j.self, token, rb, config,
                            SecretKeyFrom(Get(j.value[1], "keys", <<>>), 1))

\* verify_token after get_jwt_config c: get_jwks
VerifyTokenWithConfig(token, rj, rb, c) ==
    IF c.exc # "none" THEN ExceptHandlers(c)
    ELSE IF c.value = None
    THEN ExceptHandlers(Raises(c.self, "Exception", "", EmptyDict))
    ELSE VerifyTokenWithJwks(token, rb, c.value[1], GetJwks(c.self, rj))

\* VerifyToken asking for the key-set before the config
VerifyTokenJwksFirst(self, token, rc, rj, rb) ==
    IF use_local THEN Returns(self, UseAsyncResult)
    ELSE
    LET j == GetJwks(self, rj)
    IN  IF j.exc # "none" THEN ExceptHandlers(j)
        ELSE
    LET c == GetJwtConfig(j.self, rc)
    IN  IF c.exc # "none" THEN ExceptHandlers(c)
        ELSE VerifyTokenWithKey(c.self, token, rb, c.value[1],
                                SecretKeyFrom(Get(j.value[1], "keys", <<>>), 1))

\* verify_token, given the responses the three endpoints would give if asked
VerifyToken(self, token, rc, rj, rb) ==
    IF use_local THEN Returns(self, UseAsyncResult)
    ELSE VerifyTokenWithConfig(token, rj, rb, GetJwtConfig(self, rc))

\* what the local revocation store answers to one query
StoreAnswers == {"revoked", "clear", "error"}

\* JWTService.is_blacklisted(token): the store's answer, or the store's error; the
\* caller may cancel the task while it awaits the answer
IsBlacklisted(self, token, answer) ==
    LET s1 == Logged(self, "store")
    IN  IF answer = "cancelled"
        THEN Raises(Logged(s1, "store_cancelled"), "CancelledError", "", EmptyDict)
        ELSE IF answer = "error"
        THEN Raises(Logged(s1, "store_failed"), "Exception", "RevocationCheckFailed",
                    EmptyDict)
        ELSE IF answer = "revoked"
        THEN Returns(Logged(s1, "store_revoked"), TRUE)
        ELSE Returns(s1, FALSE)

\* VerifyTokenLocalAsync taking a failed store query for "not revoked"
VerifyTokenLocalAsyncFailOpen(self, token, answer) ==
    LET config == GetLocalConfig
        algorithm == Get(config, "algorithm", "HS256")
        issuer == Get(config, "issuer", PyNone)
        audience == Get(config, "audience", PyNone)
        secret_key == jwt_secret_key
        d == JwtDecode(self, token, secret_key, {algorithm}, issuer, audience)
    IN  IF d.exc # "none" THEN ExceptHandlers(d)
        ELSE
    LET payload == d.value[1]
        v == ValidatePayloadFields(d.self, payload)
        token_type == Get(payload, "type", PyNone)
    IN  IF v.exc # "none" THEN ExceptHandlers(v)
        ELSE IF WrongTokenType(token_type)
        THEN Returns(v.self, InvalidTokenTypeResult(token_type))
        ELSE
    LET b == IsBlacklisted(v.self, token, answer)
    IN  IF b.exc = "none" /\ b.value[1]
        THEN Returns(b.self, TokenBlacklistedResult)
        ELSE Returns(b.self, SuccessResult(payload))

\* VerifyTokenLocalAsync without the check of the token type
VerifyTokenLocalAsyncNoTypeCheck(self, token, answer) ==
    LET config == GetLocalConfig
        d == JwtDecode(self, token, jwt_secret_key, {Get(config, "algorithm", "HS256")},
                       Get(config, "issuer", PyNone), Get(config, "audience", PyNone))
    IN  IF d.exc # "none" THEN ExceptHandlers(d)
        ELSE
    LET payload == d.value[1]
        v == ValidatePayloadFields(d.self, payload)
    IN  IF v.exc # "none" THEN ExceptHandlers(v)
        ELSE
    LET b == IsBlacklisted(v.self, token, answer)
    IN  IF b.exc # "none" THEN ExceptHandlers(b)
        ELSE IF b.value[1]
        THEN Returns(b.self, TokenBlacklistedResult)
        ELSE Returns(b.self, SuccessResult(payload))

\* _verify_token_local_async, given the answer the store would give if asked
VerifyTokenLocalAsync(self, token, answer) ==
    LET config == GetLocalConfig
        algorithm == Get(config, "algorithm", "HS256")
        issuer == Get(config, "issuer", PyNone)
        audience == Get(config, "audience", PyNone)
        secret_key == jwt_secret_key
        d == JwtDecode(self, token, secret_key, {algorithm}, issuer, audience)
    IN  IF d.exc # "none" THEN ExceptHandlers(d)
        ELSE
    LET payload == d.value[1]
        v == ValidatePayloadFields(d.self, payload)
        token_type == Get(payload, "type", PyNone)
    IN  IF v.exc # "none" THEN ExceptHandlers(v)
        ELSE IF WrongTokenType(token_type)
        THEN Returns(v.self, InvalidTokenTypeResult(token_type))
        ELSE
    LET b == IsBlacklisted(v.self, token, answer)
    IN  IF b.exc # "none" THEN ExceptHandlers(b)
        ELSE IF b.value[1]
        THEN Returns(b.self, TokenBlacklistedResult)
        ELSE Returns(b.self, SuccessResult(payload))

\* VerifyTokenAsync running the local pipeline in either mode
VerifyTokenAsyncAlwaysLocal(self, token, rc, rj, rb, answer) ==
    VerifyTokenLocalAsync(self, token, answer)

\* verify_token_async: the local pipeline, or verify_token on an executor thread
VerifyTokenAsync(self, token, rc, rj, rb, answer) ==
    IF use_local
    THEN VerifyTokenLocalAsync(self, token, answer)
    ELSE VerifyToken(self, token, rc, rj, rb)

\* verify_token_async cancelled by its caller while suspended: in Local mode on the
\* store query, in Remote mode on the executor's future, whose worker has run
\* verify_token (started) or is dropped from the queue before it starts
VerifyTokenAsyncCancelled(self, token, rc, rj, rb, started) ==
    IF use_local
    THEN VerifyTokenLocalAsync(self, token, "cancelled")
    ELSE Raises(IF started THEN VerifyToken(self, token, rc, rj, rb).self ELSE self,
                "CancelledError", "", EmptyDict)

\* RefreshCache dropping the values and keeping their timestamps
RefreshCacheValuesOnly(self) ==
    [self EXCEPT !.jwks_cache = None, !.config_cache = None, !.blacklist_cache = None]

\* jwt.decode(token, options={"verify_signature": False}) as is_token_expired and
\* get_token_expiry call it: key, the second parameter of jose.jwt.decode(token, key,
\* algorithms=None, options=None, ...), has no default and is not passed, so the call
\* raises TypeError before jose reads the token
JwtDecodeNoKey(self, token) ==
    Raises(Logged(self, "decode_unverified"), "TypeError", "", EmptyDict)

\* is_token_expired: only JWTError is caught
IsTokenExpired(self, token) ==
    LET d == JwtDecodeNoKey(self, token)
    IN  IF d.exc = "JWTError" THEN Returns(d.self, TRUE)
        ELSE IF d.exc # "none" THEN d
        ELSE IF "exp" \notin DOMAIN d.value[1] THEN Returns(d.self, TRUE)
        ELSE Returns(d.self, now > d.value[1].exp)

\* get_token_expiry: only JWTError is caught; the value is an Optional timestamp
GetTokenExpiry(self, token) ==
    LET d == JwtDecodeNoKey(self, token)
    IN  IF d.exc = "JWTError" THEN Returns(d.self, None)
        ELSE IF d.exc # "none" THEN d
        ELSE IF "exp" \notin DOMAIN d.value[1] THEN Returns(d.self, None)
        ELSE Returns(d.self, Some(d.value[1].exp))

\* extract_user_info: only JWTError is caught
ExtractUserInfo(self, token) ==
    LET d == JwtDecodeNoKey(self, token)
    IN  IF d.exc = "JWTError" THEN Returns(d.self, [success |-> FALSE, data |-> None])
        ELSE IF d.exc # "none" THEN d
        ELSE LET payload == d.value[1]
             IN  Returns(d.self,
                    [success |-> TRUE,
                     data |-> Some([user_id |-> Get(payload, "sub", PyNone),
                                    username |-> Get(payload, "username", PyNone),
                                    roles |-> Get(payload, "roles", "[]"),
                                    email |-> Get(payload, "email", PyNone),
                                    phone |-> Get(payload, "phone", PyNone),
                                    full_name |-> Get(payload, "full_name", PyNone),
                                    language |-> Get(payload, "language", PyNone),
                                    is_active |-> Get(payload, "is_active", TRUE),
                                    is_superuser |-> Get(payload, "is_superuser", FALSE),
                                    exp |-> Get(payload, "exp", PyNone),
                                    iat |-> Get(payload, "iat", PyNone)])])

\* refresh_cache
RefreshCache(self) ==
    [self EXCEPT !.jwks_cache = None, !.jwks_cache_time = None,
                 !.config_cache = None, !.config_cache_time = None,
                 !.blacklist_cache = None, !.blacklist_cache_time = None]

\* RefreshBlacklistCache dropping the key-set and the config as well
RefreshBlacklistCacheDropsAll(self) ==
    [self EXCEPT !.jwks_cache = None, !.jwks_cache_time = None,
                 !.config_cache = None, !.config_cache_time = None,
                 !.blacklist_cache = None, !.blacklist_cache_time = None]

\* refresh_blacklist_cache
RefreshBlacklistCache(self) ==
    [self EXCEPT !.blacklist_cache = None, !.blacklist_cache_time = None]

\* Close leaving the client in place
CloseKeepsClient(self) == self

\* close
Close(self) ==
    IF self.client # None THEN [self EXCEPT !.client = None] ELSE self

\* JWTLocalValidator(): the fields of a newly constructed validator
NewValidator ==
    [jwks_cache |-> None, jwks_cache_time |-> None,
     config_cache |-> None, config_cache_time |-> None,
     blacklist_cache |-> None, blacklist_cache_time |-> None,
     client |-> None, calls |-> <<>>]

\* result.get("success", False) and result.get("data", {}).get("valid", False)
SuccessAndValid(result) ==
    IF Get(result, "success", FALSE) = FALSE
    THEN FALSE
    ELSE Get(Get(result, "data", EmptyDict), "valid", FALSE)

\* verify_token of a new validator as verify_token_simple calls it.  Its except
\* clauses end in except Exception, so what it can raise is a BaseException: a
\* KeyboardInterrupt delivered while it runs, in Remote mode while it is blocked in
\* its first request, whose client exists by then
VerifyTokenInterruptible(token, rc, rj, rb, interrupted) ==
    IF ~interrupted THEN VerifyToken(NewValidator, token, rc, rj, rb)
    ELSE IF use_local THEN Raises(NewValidator, "KeyboardInterrupt", "", EmptyDict)
    ELSE Raises(Logged(GetClient(NewValidator), "config"), "KeyboardInterrupt", "",
                EmptyDict)

\* verify_token_simple returning without the finally clause
VerifyTokenSimpleNoClose(token, rc, rj, rb, interrupted) ==
    LET r == VerifyTokenInterruptible(token, rc, rj, rb, interrupted)
    IN  IF r.exc # "none" THEN r ELSE Returns(r.self, SuccessAndValid(r.value[1]))

\* verify_token_simple: a validator of its own, the blocking verify, and close in
\* the finally clause, whether verify returned or raised
VerifyTokenSimple(token, rc, rj, rb, interrupted) ==
    LET r == VerifyTokenInterruptible(token, rc, rj, rb, interrupted)
    IN  IF r.exc # "none"
        THEN [r EXCEPT !.self = Close(r.self)]
        ELSE Returns(Close(r.self), SuccessAndValid(r.value[1]))

-----------------------------------------------------------------------------
(* The state machine: one validator, its operations called one at a time *)

NoResult == [status |-> "none"]

\* what the caller of an operation sees: the returned value or the raised exception
Outcome(r) ==
    IF r.exc = "none"
    THEN [status |-> "returned", value |-> r.value[1]]
    ELSE [status |-> "raised", exc |-> r.exc, error_code |-> r.error_code,
          details |-> r.details]

Store(self) ==
    /\ jwks_cache' = self.jwks_cache
    /\ jwks_cache_time' = self.jwks_cache_time
    /\ config_cache' = self.config_cache
    /\ config_cache_time' = self.config_cache_time
    /\ blacklist_cache' = self.blacklist_cache
    /\ blacklist_cache_time' = self.blacklist_cache_time
    /\ client' = self.client
    /\ calls' = self.calls

\* the endpoint's possible responses if the operation contacts it, else a placeholder
ResponsesIf(contacted, bodies) ==
    IF contacted THEN Responses(bodies) ELSE {TransportError}

\* the worker threads of the executor that run calls on the one validator
Threads == {1, 2}

\* the three cached artifacts
Artifacts == {"config", "jwks", "blacklist"}

\* a thread that runs no call: its position, its call, and the locals of verify_token
IdleThread ==
    [pc |-> "idle", op |-> "idle", token |-> NoToken, config |-> None, jwks |-> None,
     fetched |-> None, result |-> NoResult]

Init ==
    /\ use_local \in BOOLEAN
    /\ jwks_cache = None
    /\ jwks_cache_time = None
    /\ config_cache = None
    /\ config_cache_time = None
    /\ blacklist_cache = None
    /\ blacklist_cache_time = None
    /\ client = None
    /\ now = 0
    /\ op = "idle"
    /\ tok = NoToken
    /\ res = NoResult
    /\ calls = <<>>
    /\ threads = [t \in Threads |-> IdleThread]
    /\ served = [a \in Artifacts |-> {}]
    /\ clients = <<>>

DoVerifyToken ==
    /\ op = "idle"
    /\ \E token \in Tokens :
       \E rc \in ResponsesIf(InList("config", VerifyToken(Self, token, TransportError,
                                 TransportError, TransportError).self.calls), ConfigBodies) :
       \E rj \in ResponsesIf(InList("jwks", VerifyToken(Self, token, rc,
                                 TransportError, TransportError).self.calls), JwksDocs) :
       \E rb \in ResponsesIf(InList("blacklist", VerifyToken(Self, token, rc,
                                 rj, TransportError).self.calls), BlacklistBodies) :
          LET r == VerifyToken(Self, token, rc, rj, rb)
          IN  /\ Store(r.self)
              /\ op' = "verify_token"
              /\ tok' = token
              /\ res' = Outcome(r)
              /\ UNCHANGED <<use_local, now, threads, served, clients>>

DoVerifyTokenAsync ==
    /\ op = "idle"
    /\ \E token \in Tokens :
       \E rc \in ResponsesIf(InList("config", VerifyTokenAsync(Self, token, TransportError,
                                 TransportError, TransportError, "clear").self.calls),
                             ConfigBodies) :
       \E rj \in ResponsesIf(InList("jwks", VerifyTokenAsync(Self, token, rc,
                                 TransportError, TransportError, "clear").self.calls),
                             JwksDocs) :
       \E rb \in ResponsesIf(InList("blacklist", VerifyTokenAsync(Self, token, rc,
                                 rj, TransportError, "clear").self.calls),
                             BlacklistBodies) :
       \E answer \in (IF InList("store", VerifyTokenAsync(Self, token, rc, rj, rb,
                                            "clear").self.calls)
                      THEN StoreAnswers ELSE {"clear"}) :
          LET r == VerifyTokenAsync(Self, token, rc, rj, rb, answer)
          IN  /\ Store(r.self)
              /\ op' = "verify_token_async"
              /\ tok' = token
              /\ res' = Outcome(r)
              /\ UNCHANGED <<use_local, now, threads, served, clients>>

\* verify_token_async, cancelled at its suspension point
DoCancelVerifyTokenAsync ==
    /\ op = "idle"
    /\ \E token \in Tokens, started \in BOOLEAN :
       \E rc \in ResponsesIf(InList("config", VerifyTokenAsyncCancelled(Self, token,
                                 TransportError, TransportError, TransportError,
                                 started).self.calls), ConfigBodies) :
       \E rj \in ResponsesIf(InList("jwks", VerifyTokenAsyncCancelled(Self, token, rc,
                                 TransportError, TransportError, started).self.calls),
                             JwksDocs) :
       \E rb \in ResponsesIf(InList("blacklist", VerifyTokenAsyncCancelled(Self, token, rc,
                                 rj, TransportError, started).self.calls),
                             BlacklistBodies) :
          LET r == VerifyTokenAsyncCancelled(Self, token, rc, rj, rb, started)
          IN  /\ use_local => (started /\ InList("store", r.self.calls))
              /\ Store(r.self)
              /\ op' = "verify_token_async_cancelled"
              /\ tok' = token
              /\ res' = Outcome(r)
              /\ UNCHANGED <<use_local, now, threads, served, clients>>

DoGetJwks ==
    /\ op = "idle"
    /\ \E rj \in ResponsesIf(InList("jwks", GetJwks(Self, TransportError).self.calls), JwksDocs) :
          LET r == GetJwks(Self, rj)
          IN  /\ Store(r.self)
              /\ op' = "get_jwks"
              /\ tok' = NoToken
              /\ res' = Outcome(r)
              /\ UNCHANGED <<use_local, now, threads, served, clients>>

DoGetJwtConfig ==
    /\ op = "idle"
    /\ \E rc \in ResponsesIf(InList("config", GetJwtConfig(Self, TransportError).self.calls),
                             ConfigBodies) :
          LET r == GetJwtConfig(Self, rc)
          IN  /\ Store(r.self)
              /\ op' = "get_jwt_config"
              /\ tok' = NoToken
              /\ res' = Outcome(r)
              /\ UNCHANGED <<use_local, now, threads, served, clients>>

DoRefreshCache ==
    /\ op = "idle"
    /\ Store(RefreshCache(Self))
    /\ op' = "refresh_cache"
    /\ tok' = NoToken
    /\ res' = NoResult
    /\ UNCHANGED <<use_local, now, threads, served, clients>>

DoRefreshBlacklistCache ==
    /\ op = "idle"
    /\ Store(RefreshBlacklistCache(Self))
    /\ op' = "refresh_blacklist_cache"
    /\ tok' = NoToken
    /\ res' = NoResult
    /\ UNCHANGED <<use_local, now, threads, served, clients>>

DoClose ==
    /\ op = "idle"
    /\ Store(Close(Self))
    /\ op' = "close"
    /\ tok' = NoToken
    /\ res' = NoResult
    /\ UNCHANGED <<use_local, now, threads, served, clients>>

\* the caller has taken the result; the validator waits for the next call
Return ==
    /\ op # "idle"
    /\ op' = "idle"
    /\ tok' = NoToken
    /\ res' = NoResult
    /\ calls' = <<>>
    /\ UNCHANGED <<use_local, jwks_cache, jwks_cache_time, config_cache,
                   config_cache_time, blacklist_cache, blacklist_cache_time, client, now,
                   threads, served, clients>>

\* the clock advances between operations
Tick ==
    /\ op = "idle"
    /\ now < MaxTime
    /\ now' = now + 1
    /\ UNCHANGED <<use_local, jwks_cache, jwks_cache_time, config_cache,
                   config_cache_time, blacklist_cache, blacklist_cache_time, client,
                   op, tok, res, calls, threads, served, clients>>

Next ==
    \/ DoVerifyToken
    \/ DoVerifyTokenAsync
    \/ DoCancelVerifyTokenAsync
    \/ DoGetJwks
    \/ DoGetJwtConfig
    \/ DoRefreshCache
    \/ DoRefreshBlacklistCache
    \/ DoClose
    \/ Return
    \/ Tick

Spec == Init /\ [][Next]_vars

-----------------------------------------------------------------------------
(* The expiry helpers: functions of the token and the clock, applied to     *)
(* every token at every second.                                             *)

DoIsTokenExpired ==
    /\ op = "idle"
    /\ \E token \in ExpiryTokens :
          LET r == IsTokenExpired(Self, token)
          IN  /\ Store(r.self)
              /\ op' = "is_token_expired"
              /\ tok' = token
              /\ res' = Outcome(r)
              /\ UNCHANGED <<use_local, now, threads, served, clients>>

DoGetTokenExpiry ==
    /\ op = "idle"
    /\ \E token \in ExpiryTokens :
          LET r == GetTokenExpiry(Self, token)
          IN  /\ Store(r.self)
              /\ op' = "get_token_expiry"
              /\ tok' = token
              /\ res' = Outcome(r)
              /\ UNCHANGED <<use_local, now, threads, served, clients>>

DoExtractUserInfo ==
    /\ op = "idle"
    /\ \E token \in ExpiryTokens :
          LET r == ExtractUserInfo(Self, token)
          IN  /\ Store(r.self)
              /\ op' = "extract_user_info"
              /\ tok' = token
              /\ res' = Outcome(r)
              /\ UNCHANGED <<use_local, now, threads, served, clients>>

NextExpiry ==
    \/ DoIsTokenExpired
    \/ DoGetTokenExpiry
    \/ DoExtractUserInfo
    \/ Return
    \/ Tick

SpecExpiry == Init /\ [][NextExpiry]_vars

------------------------------------------------------------------------------
(* verify_token_simple: the module's function that builds a validator,     *)
(* verifies one token with it and closes it.  In this specification the    *)
(* validator fields hold the validator of the latest call, as the function *)
(* leaves it; use_local is settings.auth_use_local_jwt, which the          *)
(* constructor reads.                                                      *)

DoVerifyTokenSimple ==
    /\ op = "idle"
    /\ \E token \in ExpiryTokens, interrupted \in BOOLEAN :
       \E rc \in ResponsesIf(InList("config", VerifyTokenSimple(token, TransportError,
                                 TransportError, TransportError, interrupted).self.calls)
                                 /\ ~interrupted, ConfigBodies) :
       \E rj \in ResponsesIf(InList("jwks", VerifyTokenSimple(token, rc,
                                 TransportError, TransportError, interrupted).self.calls),
                             JwksDocs) :
       \E rb \in ResponsesIf(InList("blacklist", VerifyTokenSimple(token, rc,
                                 rj, TransportError, interrupted).self.calls),
                             BlacklistBodies) :
          LET r == VerifyTokenSimple(token, rc, rj, rb, interrupted)
          IN  /\ Store(r.self)
              /\ op' = "verify_token_simple"
              /\ tok' = token
              /\ res' = Outcome(r)
              /\ UNCHANGED <<use_local, now, threads, served, clients>>

NextSimple ==
    \/ DoVerifyTokenSimple
    \/ Return
    \/ Tick

SpecSimple == Init /\ [][NextSimple]_vars

-----------------------------------------------------------------------------
(* Calls running concurrently on worker threads (verify_token_async hands  *)
(* verify_token to the executor in Remote mode).  A thread takes one step  *)
(* at a time: the freshness test, the fetch, the assignment of the value,  *)
(* the assignment of the timestamp, the read of the cached value, and the  *)
(* part of verify_token that touches no shared field.                      *)

\* the calls the threads run
ThreadOps == {"verify_token", "get_jwks"}

\* the documents the issuer serves while the threads run
ConcTokens == {RevocableToken}
ConcBodies(a) ==
    CASE a = "config" -> {IssuerConfig}
      [] a = "jwks" -> {[keys |-> <<OctKey(jwt_secret_key)>>],
                        [keys |-> <<RsaKey, OctKey("other-key")>>]}
      [] OTHER -> {[data |-> [blacklisted_tokens |-> <<>>]],
                   [data |-> [blacklisted_tokens |-> <<Sha256(RevocableToken)>>]]}

CacheOf(a) ==
    CASE a = "config" -> config_cache [] a = "jwks" -> jwks_cache [] OTHER -> blacklist_cache

TimeOf(a) ==
    CASE a = "config" -> config_cache_time
      [] a = "jwks" -> jwks_cache_time
      [] OTHER -> blacklist_cache_time

\* self.<field> = value
Assign(field, value) ==
    /\ config_cache' = IF field = "config_cache" THEN value ELSE config_cache
    /\ config_cache_time' = IF field = "config_cache_time" THEN value ELSE config_cache_time
    /\ jwks_cache' = IF field = "jwks_cache" THEN value ELSE jwks_cache
    /\ jwks_cache_time' = IF field = "jwks_cache_time" THEN value ELSE jwks_cache_time
    /\ blacklist_cache' = IF field = "blacklist_cache" THEN value ELSE blacklist_cache
    /\ blacklist_cache_time' =
           IF field = "blacklist_cache_time" THEN value ELSE blacklist_cache_time

\* the _fetch_* method of an artifact
Fetch(a, self, response) ==
    CASE a = "config" -> FetchJwtConfig(self, response)
      [] a = "jwks" -> FetchJwks(self, response)
      [] OTHER -> FetchBlacklist(self, response)

\* FieldWrittenAt assigning the timestamp before the value
FieldWrittenAtTimeFirst(a, step) ==
    IF step = "store" THEN a \o "_cache_time" ELSE a \o "_cache"

\* the getters assign the fetched value first and the timestamp second
FieldWrittenAt(a, step) ==
    IF step = "store" THEN a \o "_cache" ELSE a \o "_cache_time"

\* the position of a thread: an artifact and the step of its getter
At(a, step) == a \o "_" \o step

\* the first artifact a call asks for
FirstArtifact(o) == IF o = "get_jwks" THEN "jwks" ELSE "config"

\* what a finished call gives its caller
Done(th, result) == [th EXCEPT !.pc = "done", !.result = result]

\* the result dict of an exception raised inside verify_token
Handled(exc) == Outcome(ExceptHandlers(Raises(Self, exc, "", EmptyDict)))

\* verify_token between get_jwks and the revocation check: the key, the decode, the
\* payload checks and the token type; None when the token goes on to the revocation check
DecodeStage(token, config, jwks) ==
    LET algorithm == Get(config, "algorithm", "HS256")
        issuer == Get(config, "issuer", PyNone)
        audience == Get(config, "audience", PyNone)
        secret_key == SecretKeyFrom(Get(jwks, "keys", <<>>), 1)
    IN  IF Falsy(secret_key) THEN Some(Outcome(Returns(Self, NoSecretKeyResult)))
        ELSE
    LET d == JwtDecode(Self, token, secret_key, {algorithm}, issuer, audience)
    IN  IF d.exc # "none" THEN Some(Outcome(ExceptHandlers(d)))
        ELSE
    LET payload == d.value[1]
        v == ValidatePayloadFields(d.self, payload)
        token_type == Get(payload, "type", PyNone)
    IN  IF v.exc # "none" THEN Some(Outcome(ExceptHandlers(v)))
        ELSE IF WrongTokenType(token_type)
        THEN Some(Outcome(Returns(Self, InvalidTokenTypeResult(token_type))))
        ELSE None

\* a caller hands a call to an idle thread
ThreadStart ==
    /\ \E t \in Threads, o \in ThreadOps, token \in ConcTokens :
          /\ threads[t].pc = "idle"
          /\ threads' = [threads EXCEPT ![t] =
                 [IdleThread EXCEPT !.pc = At(FirstArtifact(o), "check"), !.op = o,
                                    !.token = IF o = "verify_token" THEN token ELSE NoToken]]
    /\ UNCHANGED <<use_local, jwks_cache, jwks_cache_time, config_cache, config_cache_time,
                   blacklist_cache, blacklist_cache_time, client, now, op, tok, res, calls,
                   served, clients>>

\* if not self._is_cache_valid(self._<a>_cache_time)
ThreadCheck ==
    /\ \E t \in Threads, a \in Artifacts :
          /\ threads[t].pc = At(a, "check")
          /\ threads' = [threads EXCEPT ![t].pc =
                 IF IsCacheValid(TimeOf(a)) THEN At(a, "return") ELSE At(a, "fetch")]
    /\ UNCHANGED <<use_local, jwks_cache, jwks_cache_time, config_cache, config_cache_time,
                   blacklist_cache, blacklist_cache_time, client, now, op, tok, res, calls,
                   served, clients>>

\* self._fetch_<a>(): the value, or the exception that ends the call
ThreadFetch ==
    /\ \E t \in Threads, a \in Artifacts :
       \E response \in {Http200(b) : b \in ConcBodies(a)} \cup {Http500} :
          LET th == threads[t]
              f == Fetch(a, Self, response)
          IN  /\ th.pc = At(a, "fetch")
              /\ client' = f.self.client
              /\ IF f.exc # "none"
                 THEN /\ threads' = [threads EXCEPT ![t] =
                             Done(th, IF th.op = "verify_token"
                                      THEN Outcome(ExceptHandlers(f))
                                      ELSE Outcome(f))]
                      /\ UNCHANGED served
                 ELSE /\ threads' = [threads EXCEPT ![t] =
                             [th EXCEPT !.pc = At(a, "store"), !.fetched = f.value]]
                      /\ served' = [served EXCEPT ![a] = @ \cup {f.value[1]}]
    /\ UNCHANGED <<use_local, jwks_cache, jwks_cache_time, config_cache, config_cache_time,
                   blacklist_cache, blacklist_cache_time, now, op, tok, res, calls,
                   clients>>

\* the two assignments of a getter, the fetched value and datetime.utcnow()
ThreadAssign ==
    /\ \E t \in Threads, a \in Artifacts, step \in {"store", "time"} :
          LET th == threads[t]
              field == FieldWrittenAt(a, step)
          IN  /\ th.pc = At(a, step)
              /\ Assign(field, IF field = a \o "_cache" THEN th.fetched ELSE Some(now))
              /\ threads' = [threads EXCEPT ![t].pc =
                     IF step = "store" THEN At(a, "time") ELSE At(a, "return")]
    /\ UNCHANGED <<use_local, client, now, op, tok, res, calls, served, clients>>

\* return self._<a>_cache, and what verify_token does with the value
ThreadReturn ==
    /\ \E t \in Threads, a \in Artifacts :
          LET th == threads[t]
              v == CacheOf(a)
          IN  /\ th.pc = At(a, "return")
              /\ threads' = [threads EXCEPT ![t] =
                     IF th.op # "verify_token"
                     THEN Done(th, [status |-> "returned", value |-> v])
                     ELSE IF a = "blacklist"
                     THEN LET blacklist == IF v = None THEN <<>> ELSE v[1]
                          IN  IF blacklist # NotIterable /\ InList(Sha256(th.token), blacklist)
                              THEN Done(th, Outcome(Returns(Self, TokenBlacklistedResult)))
                              ELSE Done(th, Outcome(Returns(Self,
                                                SuccessResult(th.token.payload))))
                     ELSE IF v = None
                     THEN Done(th, Handled("Exception"))
                     ELSE IF a = "config"
                     THEN [th EXCEPT !.pc = At("jwks", "check"), !.config = v]
                     ELSE [th EXCEPT !.pc = At("jwks", "decode"), !.jwks = v]]
    /\ UNCHANGED <<use_local, jwks_cache, jwks_cache_time, config_cache, config_cache_time,
                   blacklist_cache, blacklist_cache_time, client, now, op, tok, res, calls,
                   served, clients>>

\* verify_token from the key loop to the token-type check
ThreadDecode ==
    /\ \E t \in Threads :
          LET th == threads[t]
              r == DecodeStage(th.token, th.config[1], th.jwks[1])
          IN  /\ th.pc = At("jwks", "decode")
              /\ threads' = [threads EXCEPT ![t] =
                     IF r # None THEN Done(th, r[1])
                     ELSE [th EXCEPT !.pc = At("blacklist", "check")]]
    /\ UNCHANGED <<use_local, jwks_cache, jwks_cache_time, config_cache, config_cache_time,
                   blacklist_cache, blacklist_cache_time, client, now, op, tok, res, calls,
                   served, clients>>

\* the caller takes the result; the thread is free again
ThreadFinish ==
    /\ \E t \in Threads :
          /\ threads[t].pc = "done"
          /\ threads' = [threads EXCEPT ![t] = IdleThread]
    /\ UNCHANGED <<use_local, jwks_cache, jwks_cache_time, config_cache, config_cache_time,
                   blacklist_cache, blacklist_cache_time, client, now, op, tok, res, calls,
                   served, clients>>

InitConc == Init /\ ~use_local

NextConc ==
    \/ ThreadStart
    \/ ThreadCheck
    \/ ThreadFetch
    \/ ThreadAssign
    \/ ThreadReturn
    \/ ThreadDecode
    \/ ThreadFinish
    \/ Tick

SpecConc == InitConc /\ [][NextConc]_vars

-----------------------------------------------------------------------------
(* refresh_cache running on a thread next to the getters and verify_token: *)
(* its six assignments are six steps, in the order of the code.            *)

\* the artifact refresh_cache clears after a, none after the last
NextCleared(a) ==
    CASE a = "jwks" -> "config" [] a = "config" -> "blacklist" [] OTHER -> "none"

\* a caller hands refresh_cache to an idle thread
ThreadStartRefresh ==
    /\ \E t \in Threads :
          /\ threads[t].pc = "idle"
          /\ threads' = [threads EXCEPT ![t] =
                 [IdleThread EXCEPT !.pc = At("jwks", "drop"), !.op = "refresh_cache"]]
    /\ UNCHANGED <<use_local, jwks_cache, jwks_cache_time, config_cache, config_cache_time,
                   blacklist_cache, blacklist_cache_time, client, now, op, tok, res, calls,
                   served, clients>>

\* self._<a>_cache = None, then self._<a>_cache_time = None
ThreadDrop ==
    /\ \E t \in Threads, a \in Artifacts, step \in {"drop", "droptime"} :
          LET th == threads[t]
          IN  /\ th.pc = At(a, step)
              /\ Assign(IF step = "drop" THEN a \o "_cache" ELSE a \o "_cache_time", None)
              /\ threads' = [threads EXCEPT ![t] =
                     IF step = "drop" THEN [th EXCEPT !.pc = At(a, "droptime")]
                     ELSE IF NextCleared(a) = "none" THEN Done(th, NoResult)
                     ELSE [th EXCEPT !.pc = At(NextCleared(a), "drop")]]
    /\ UNCHANGED <<use_local, client, now, op, tok, res, calls, served, clients>>

\* the threads within one second: getters, verify_token and refresh_cache
NextInvalidate ==
    \/ ThreadStart
    \/ ThreadStartRefresh
    \/ ThreadCheck
    \/ ThreadFetch
    \/ ThreadAssign
    \/ ThreadDrop
    \/ ThreadReturn
    \/ ThreadDecode
    \/ ThreadFinish

SpecInvalidate == InitConc /\ [][NextInvalidate]_vars

-----------------------------------------------------------------------------
(* The network client under concurrent fetches and close() calls: the test *)
(* and the assignment of _get_client, and the test, the close and the      *)
(* assignment of close, are separate steps.  A fetch stands for any of the *)
(* three _fetch_* methods, which all begin with self._get_client().        *)

\* the number of clients created in one run of the model
MaxClients == 3

\* the calls the threads run on the client
ClientOps == {"fetch", "close"}

\* what a thread leaves unchanged when it only moves or touches the client
ClientFrame ==
    UNCHANGED <<use_local, jwks_cache, jwks_cache_time, config_cache, config_cache_time,
                blacklist_cache, blacklist_cache_time, now, op, tok, res, calls, served>>

\* the result of a fetch whose request could not be sent
RequestFailed ==
    Outcome(Raises(Self, "JWTValidationError", "JWKS_FETCH_EXCEPTION", EmptyDict))

\* a caller hands a fetch or close() to an idle thread
ThreadStartClient ==
    /\ \E t \in Threads, o \in ClientOps :
          /\ threads[t].pc = "idle"
          /\ threads' = [threads EXCEPT ![t] =
                 [IdleThread EXCEPT !.op = o,
                     !.pc = IF o = "fetch" THEN "client_check" ELSE "close_check"]]
    /\ UNCHANGED <<client, clients>>
    /\ ClientFrame

\* _get_client: if self._client is None
ThreadClientCheck ==
    /\ \E t \in Threads :
          /\ threads[t].pc = "client_check"
          /\ threads' = [threads EXCEPT ![t].pc =
                 IF client = None THEN "client_create" ELSE "client_return"]
    /\ UNCHANGED <<client, clients>>
    /\ ClientFrame

\* _get_client: self._client = httpx.Client(timeout=10)
ThreadClientCreate ==
    /\ Len(clients) < MaxClients
    /\ \E t \in Threads :
          /\ threads[t].pc = "client_create"
          /\ clients' = Append(clients, "open")
          /\ client' = Some(Len(clients) + 1)
          /\ threads' = [threads EXCEPT ![t].pc = "client_return"]
    /\ ClientFrame

\* _get_client: return self._client
ThreadClientReturn ==
    /\ \E t \in Threads :
          /\ threads[t].pc = "client_return"
          /\ threads' = [threads EXCEPT ![t].pc = "request", ![t].fetched = client]
    /\ UNCHANGED <<client, clients>>
    /\ ClientFrame

\* client.get(url) on the client _get_client returned: None has no get, a closed
\* client refuses to send
ThreadRequest ==
    /\ \E t \in Threads :
          LET th == threads[t]
          IN  /\ th.pc = "request"
              /\ threads' = [threads EXCEPT ![t] =
                     IF th.fetched = None \/ clients[th.fetched[1]] = "closed"
                     THEN Done(th, RequestFailed)
                     ELSE Done(th, [status |-> "returned", value |-> "response"])]
    /\ UNCHANGED <<client, clients>>
    /\ ClientFrame

\* close: if self._client
ThreadCloseCheck ==
    /\ \E t \in Threads :
          LET th == threads[t]
          IN  /\ th.pc = "close_check"
              /\ threads' = [threads EXCEPT ![t] =
                     IF client = None
                     THEN Done(th, [status |-> "returned", value |-> PyNone])
                     ELSE [th EXCEPT !.pc = "close_call"]]
    /\ UNCHANGED <<client, clients>>
    /\ ClientFrame

\* close: self._client.close(); the field is read again, None has no close
ThreadCloseCall ==
    /\ \E t \in Threads :
          LET th == threads[t]
          IN  /\ th.pc = "close_call"
              /\ IF client = None
                 THEN /\ threads' = [threads EXCEPT ![t] =
                             Done(th, Outcome(Raises(Self, "AttributeError", "", EmptyDict)))]
                      /\ UNCHANGED clients
                 ELSE /\ threads' = [threads EXCEPT ![t].pc = "close_clear"]
                      /\ clients' = [clients EXCEPT ![client[1]] = "closed"]
    /\ UNCHANGED client
    /\ ClientFrame

\* close: self._client = None
ThreadCloseClear ==
    /\ \E t \in Threads :
          LET th == threads[t]
          IN  /\ th.pc = "close_clear"
              /\ client' = None
              /\ threads' = [threads EXCEPT ![t] =
                     Done(th, [status |-> "returned", value |-> PyNone])]
    /\ UNCHANGED clients
    /\ ClientFrame

NextClient ==
    \/ ThreadStartClient
    \/ ThreadClientCheck
    \/ ThreadClientCreate
    \/ ThreadClientReturn
    \/ ThreadRequest
    \/ ThreadCloseCheck
    \/ ThreadCloseCall
    \/ ThreadCloseClear
    \/ ThreadFinish

SpecClient == InitConc /\ [][NextClient]_vars

-----------------------------------------------------------------------------
(* What the claims speak about, read off the state after an operation *)

IsVerify == op \in {"verify_token", "verify_token_async"}

\* the log of the operation has this entry
Called(entry) == \E i \in DOMAIN calls : calls[i] = entry

\* the number of times the log has this entry
Count(entry) == Cardinality({i \in DOMAIN calls : calls[i] = entry})

\* the operation returned a result dict
ReturnedDict == IsVerify /\ res.status = "returned"

Accepted == ReturnedDict /\ res.value.success /\ res.value.data.valid

\* the error code of a result dict, None on the dict of a success
ErrorCode == Get(res.value.data, "error_code", PyNone)

\* a result dict that is a rejection with this error code
Rejected(error_code) ==
    /\ ReturnedDict
    /\ ~res.value.success
    /\ ~res.value.data.valid
    /\ ErrorCode = error_code

\* the pipeline of the call got as far as decoding the token
Decoded == IsVerify /\ Called("decode")

\* the key and the config the call verified against: the local ones, or the cached
\* documents (a Remote call leaves in the cache what it used)
KeyInUse ==
    IF use_local THEN "your-secret-key"
    ELSE LET keys == jwks_cache[1].keys
             octs == {i \in DOMAIN keys : keys[i].kty = "oct"}
         IN  IF octs = {} THEN PyNone
             ELSE UrlsafeB64Decode(keys[CHOOSE i \in octs : \A j \in octs : i <= j].k)

ConfigInUse ==
    IF use_local
    THEN [algorithm |-> "HS256", issuer |-> "ml-user-service", audience |-> "microservices"]
    ELSE config_cache[1]

\* the token's signature, algorithm, issuer, audience and expiry stand the check
SignatureOk(t) ==
    /\ t.key = KeyInUse
    /\ t.alg = (IF "algorithm" \in DOMAIN ConfigInUse THEN ConfigInUse.algorithm ELSE "HS256")
    /\ "iss" \in DOMAIN t.payload /\ t.payload.iss = ConfigInUse.issuer
    /\ "aud" \in DOMAIN t.payload => t.payload.aud = ConfigInUse.audience
    /\ "exp" \in DOMAIN t.payload => t.payload.exp >= now

\* sub, username and roles are present and roles is a list
ShapeOk(t) ==
    /\ {"sub", "username", "roles"} \subseteq DOMAIN t.payload
    /\ t.payload.roles \in {"[admin]", "[]"}

\* the user is not disabled
ActiveOk(t) == "is_active" \in DOMAIN t.payload => t.payload.is_active

\* the semantic stage as verify_token runs it: the user is not disabled and the type
\* claim is absent, empty or "access"
SemanticOk(t) ==
    /\ ActiveOk(t)
    /\ "type" \in DOMAIN t.payload => t.payload.type \in {"", "access"}

\* the revocation check of the call answered "revoked": the token's fingerprint is in
\* the list the call used (Remote), the store said so (Local)
ReportedRevoked ==
    IF use_local
    THEN Called("store_revoked")
    ELSE blacklist_cache # None /\ \E i \in DOMAIN blacklist_cache[1] :
                                       blacklist_cache[1][i] = Sha256(tok)

-----------------------------------------------------------------------------
(* C1: in either mode and after any sequence of operations and failures, a *)
(* token is Accepted only if in that call the signature/issuer/audience/   *)
(* expiry check succeeded, sub, username and roles are present with roles  *)
(* a list, is_active is not false, type is absent or "access", and the     *)
(* revocation check did not report it revoked.                              *)
C1_AcceptedOnlyIfValid ==
    Accepted =>
        /\ SignatureOk(tok)
        /\ ShapeOk(tok)
        /\ ActiveOk(tok)
        /\ "type" \notin DOMAIN tok.payload \/ tok.payload.type = "access"
        /\ ~ReportedRevoked
        /\ use_local => Called("store") /\ ~Called("store_failed")

(* C2: the stages run in the order signature, shape, semantic, revocation: *)
(* a call that decodes the token rejects it with the error code of the     *)
(* earliest stage the token fails (the semantic stage failing on a         *)
(* disabled user or on a non-empty type other than "access").              *)
C2_EarliestFailingStage ==
    Decoded =>
        /\ ~SignatureOk(tok) => Rejected("JWT_DECODE_ERROR")
        /\ SignatureOk(tok) /\ ~ShapeOk(tok) =>
               \/ Rejected("MISSING_REQUIRED_FIELD")
               \/ Rejected("INVALID_FIELD_TYPE")
        /\ SignatureOk(tok) /\ ShapeOk(tok) /\ ~SemanticOk(tok) =>
               \/ Rejected("USER_INACTIVE")
               \/ Rejected("INVALID_TOKEN_TYPE")
        /\ SignatureOk(tok) /\ ShapeOk(tok) /\ SemanticOk(tok) /\ ReportedRevoked =>
               Rejected("TOKEN_BLACKLISTED")

\* roles is a string and the fingerprint is in the cached revocation list: InvalidFieldType
C2_Witness ==
    /\ ~use_local
    /\ Decoded
    /\ tok = EditToken(RevocableToken, "roles_str")
    /\ SignatureOk(tok)
    /\ ReportedRevoked
    /\ Rejected("INVALID_FIELD_TYPE")

\* the error codes of the signature, shape and semantic stages
EarlyStageCodes ==
    {"JWT_DECODE_ERROR", "MISSING_REQUIRED_FIELD", "INVALID_FIELD_TYPE",
     "USER_INACTIVE", "INVALID_TOKEN_TYPE"}

RejectedEarly == ReturnedDict /\ ErrorCode \in EarlyStageCodes

(* C3: a call that rejects the token at the signature, shape or semantic   *)
(* stage does not consult the revocation oracle: it makes no revocation-   *)
(* list fetch, leaves the cached list and its timestamp as they were, and  *)
(* does not query the revocation store.                                    *)
C3_EarlyRejectSkipsRevocation ==
    [][RejectedEarly' =>
          /\ ~Called("blacklist")'
          /\ ~Called("store")'
          /\ UNCHANGED <<blacklist_cache, blacklist_cache_time>>]_vars

\* a refresh token rejected in Remote mode while the revocation list had expired
C3_Witness ==
    /\ ~use_local
    /\ Rejected("INVALID_TOKEN_TYPE")
    /\ blacklist_cache_time # None
    /\ now - blacklist_cache_time[1] >= cache_ttl

C5_RemoteFailOpen ==
    (~use_local /\ IsVerify /\ Called("blacklist_failed")) =>
        /\ Accepted
        /\ SignatureOk(tok) /\ ShapeOk(tok) /\ SemanticOk(tok)

\* a token the issuer lists as revoked, accepted because the fetch failed
C5_Witness ==
    /\ ~use_local
    /\ op = "verify_token"
    /\ tok = RevocableToken
    /\ Called("blacklist_failed")
    /\ Accepted

(* C6: Local mode is fail-closed on revocation: a verify_token_async call  *)
(* whose revocation-store query fails never returns Accepted.              *)
C6_LocalFailClosed ==
    (use_local /\ op = "verify_token_async" /\ Called("store_failed")) => ~Accepted

\* the good token, not accepted because the store failed
C6_Witness ==
    /\ use_local
    /\ op = "verify_token_async"
    /\ tok = GoodToken
    /\ Called("store_failed")
    /\ ~Accepted

TrustFetchFailed == Called("jwks_failed") \/ Called("config_failed")

(* C8 as stated: in Remote mode, when the key-set or config fetch fails,   *)
(* verify returns neither a Rejected outcome nor Accepted: the failure     *)
(* reaches the caller in another form.                                     *)
C8_FetchFailureIsNoRejection ==
    (~use_local /\ op = "verify_token" /\ TrustFetchFailed) =>
        /\ ~(ReturnedDict /\ ~res.value.data.valid)
        /\ ~Accepted

(* C8 as amended: in Remote mode, when the key-set or config fetch fails   *)
(* (HTTP 500 or transport error) and no fresh cached copy exists, verify   *)
(* returns a rejection result (success=false, valid=false, reason          *)
(* "validation_error") whose error code is the fetch's, JWKS_FETCH_ERROR   *)
(* or CONFIG_FETCH_ERROR with the status 500 in its details (..._EXCEPTION *)
(* for a transport error), a code no rejection of a token carries; it      *)
(* raises nothing, does not decode the token and never returns Accepted.   *)
C8_FetchFailureIsRejection ==
    (~use_local /\ op = "verify_token" /\ TrustFetchFailed) =>
        /\ ReturnedDict /\ ~res.value.success /\ ~res.value.data.valid
        /\ res.value.data.reason = "validation_error"
        /\ Called("jwks_failed") =>
               ErrorCode \in {"JWKS_FETCH_ERROR", "JWKS_FETCH_EXCEPTION"}
        /\ Called("config_failed") =>
               ErrorCode \in {"CONFIG_FETCH_ERROR", "CONFIG_FETCH_EXCEPTION"}
        /\ ErrorCode \in {"JWKS_FETCH_ERROR", "CONFIG_FETCH_ERROR"} =>
               res.value.data.details.status_code = 500
        /\ ~Called("decode")

\* the key-set endpoint answers 500 while an expired key-set is cached
C8_Witness ==
    /\ ~use_local
    /\ op = "verify_token"
    /\ Called("jwks_failed")
    /\ jwks_cache # None
    /\ Rejected("JWKS_FETCH_ERROR")
    /\ res.value.data.details.status_code = 500

\* a cached artifact with this timestamp is fresh
Fresh(cache_time) == cache_time # None /\ now - cache_time[1] < cache_ttl

(* C9: in Remote mode a get_jwks or get_jwt_config whose fetch fails       *)
(* (non-200 or transport error) raises the fetch error: no expired value   *)
(* is returned in its place, the cached value and its timestamp stay as    *)
(* they were, and the artifact is still not fresh, so the next call        *)
(* fetches again.                                                          *)
C9_FailedFetchRaises ==
    [][/\ (op' = "get_jwks" /\ Called("jwks_failed")') =>
              /\ res'.status = "raised"
              /\ res'.exc = "JWTValidationError"
              /\ res'.error_code \in {"JWKS_FETCH_ERROR", "JWKS_FETCH_EXCEPTION"}
              /\ ~Fresh(jwks_cache_time)'
       /\ (op' = "get_jwt_config" /\ Called("config_failed")') =>
              /\ res'.status = "raised"
              /\ res'.exc = "JWTValidationError"
              /\ res'.error_code \in {"CONFIG_FETCH_ERROR", "CONFIG_FETCH_EXCEPTION"}
              /\ ~Fresh(config_cache_time)'
       /\ Called("jwks_failed")' => UNCHANGED <<jwks_cache, jwks_cache_time>>
       /\ Called("config_failed")' => UNCHANGED <<config_cache, config_cache_time>>
      ]_vars

\* get_jwks fails while an expired key-set is cached, and raises
C9_Witness ==
    /\ op = "get_jwks"
    /\ Called("jwks_failed")
    /\ jwks_cache # None
    /\ res.status = "raised"

(* C10: in Remote mode a get of the key-set or of the config fetches       *)
(* exactly once when the artifact was never fetched, was invalidated or    *)
(* now - fetchedAt >= ttl, and stores what a successful fetch returned     *)
(* with the current time; otherwise it fetches nothing and returns the     *)
(* cached value.  It never contacts another endpoint nor touches another   *)
(* artifact's value or timestamp.                                          *)
C10_FetchIffNotFresh ==
    [][/\ (op' = "get_jwks" /\ ~use_local) =>
              /\ Count("jwks")' = (IF Fresh(jwks_cache_time) THEN 0 ELSE 1)
              /\ Fresh(jwks_cache_time) =>
                     /\ res' = [status |-> "returned", value |-> jwks_cache[1]]
                     /\ UNCHANGED <<jwks_cache, jwks_cache_time>>
              /\ (~Fresh(jwks_cache_time) /\ res'.status = "returned") =>
                     /\ jwks_cache' = <<res'.value>>
                     /\ jwks_cache_time' = <<now>>
              /\ ~Called("config")' /\ ~Called("blacklist")'
              /\ UNCHANGED <<config_cache, config_cache_time,
                             blacklist_cache, blacklist_cache_time>>
       /\ (op' = "get_jwt_config" /\ ~use_local) =>
              /\ Count("config")' = (IF Fresh(config_cache_time) THEN 0 ELSE 1)
              /\ Fresh(config_cache_time) =>
                     /\ res' = [status |-> "returned", value |-> config_cache[1]]
                     /\ UNCHANGED <<config_cache, config_cache_time>>
              /\ (~Fresh(config_cache_time) /\ res'.status = "returned") =>
                     /\ config_cache' = <<res'.value>>
                     /\ config_cache_time' = <<now>>
              /\ ~Called("jwks")' /\ ~Called("blacklist")'
              /\ UNCHANGED <<jwks_cache, jwks_cache_time,
                             blacklist_cache, blacklist_cache_time>>
      ]_vars

\* the key-set refetched once its TTL has passed, the config still at its older age
C10_Witness ==
    /\ op = "get_jwks"
    /\ Count("jwks") = 1
    /\ res.status = "returned"
    /\ jwks_cache_time = <<now>>
    /\ now >= cache_ttl
    /\ config_cache_time # None
    /\ config_cache_time[1] < now

-----------------------------------------------------------------------------
\* the call reached the revocation stage: its result is the one of that stage
ReachedRevocation == Accepted \/ Rejected("TOKEN_BLACKLISTED")

(* C11: refresh_cache drops the cached key-set, config and revocation list *)
(* with their timestamps and performs no fetch; a dropped artifact stays   *)
(* dropped until a fetch of it, and in Remote mode the next get_jwks, the  *)
(* next get_jwt_config and the next revocation check each fetch, also in   *)
(* the second the artifact had been fetched in.                            *)
C11_InvalidateForcesFetch ==
    [][/\ op' = "refresh_cache" =>
              /\ jwks_cache' = None /\ jwks_cache_time' = None
              /\ config_cache' = None /\ config_cache_time' = None
              /\ blacklist_cache' = None /\ blacklist_cache_time' = None
              /\ calls' = <<>>
              /\ client' = client
       /\ (jwks_cache_time = None /\ jwks_cache_time' # None) => Called("jwks")'
       /\ (config_cache_time = None /\ config_cache_time' # None) => Called("config")'
       /\ (blacklist_cache_time = None /\ blacklist_cache_time' # None) =>
              Called("blacklist")'
       /\ (~use_local /\ jwks_cache_time = None /\ op' = "get_jwks") =>
              Count("jwks")' = 1
       /\ (~use_local /\ config_cache_time = None /\ op' = "get_jwt_config") =>
              Count("config")' = 1
       /\ (~use_local /\ blacklist_cache_time = None /\ ReachedRevocation') =>
              Count("blacklist")' = 1
      ]_vars

\* refresh_cache in the second the validator had fetched in: everything is dropped
C11_Witness ==
    /\ ~use_local
    /\ op = "refresh_cache"
    /\ now = 0
    /\ client # None
    /\ jwks_cache_time = None /\ config_cache_time = None /\ blacklist_cache_time = None
    /\ calls = <<>>

(* C12: the revocation list has its own TTL: in Remote mode a verify that  *)
(* reaches the revocation check uses the cached list only while            *)
(* now - fetchedAt < blacklist_cache_ttl, and fetches the list otherwise,  *)
(* whatever cache_ttl is.                                                  *)
C12_BlacklistOwnTtl ==
    [][(~use_local /\ ReachedRevocation') =>
          (Called("blacklist")' <=>
               ~(/\ blacklist_cache_time # None
                 /\ now - blacklist_cache_time[1] < blacklist_cache_ttl))]_vars

(* C13: the Remote revocation check has no false positive: a token is      *)
(* rejected with TokenBlacklisted only if the SHA-256 digest of that very  *)
(* token is an element of the list last obtained from the issuer, and it   *)
(* is taken for not revoked whenever the fetch or the check failed or the  *)
(* fetched list is empty or absent from the body.                          *)
C13_NoFalsePositive ==
    /\ (~use_local /\ Rejected("TOKEN_BLACKLISTED")) =>
           /\ blacklist_cache # None
           /\ blacklist_cache[1] # NotIterable
           /\ InList(Sha256(tok), blacklist_cache[1])
           /\ ~Called("blacklist_failed")
           /\ ~Called("blacklist_check_failed")
    /\ (/\ ~use_local
        /\ IsVerify
        /\ \/ Called("blacklist_failed")
           \/ Called("blacklist_check_failed")
           \/ Called("blacklist") /\ blacklist_cache = <<<<>>>>) => Accepted

\* the list holds the digest of a token that differs in one claim: not revoked
C13_Witness ==
    /\ ~use_local
    /\ tok = EditToken(RevocableToken, "empty_type")
    /\ blacklist_cache = <<<<Sha256(RevocableToken)>>>>
    /\ Called("blacklist")
    /\ Accepted

(* C14: in Local mode the blocking verify_token returns the sentinel       *)
(* rejection USE_VERIFY_TOKEN_ASYNC (success=false, valid=false) for every *)
(* token: it decodes nothing, queries no store, fetches nothing and leaves *)
(* the caches and the client as they were.                                 *)
C14_LocalVerifyIsSentinel ==
    [][(use_local /\ op' = "verify_token") =>
          /\ res' = [status |-> "returned", value |-> UseAsyncResult]
          /\ Rejected("USE_VERIFY_TOKEN_ASYNC")'
          /\ calls' = <<>>
          /\ UNCHANGED <<jwks_cache, jwks_cache_time, config_cache, config_cache_time,
                         blacklist_cache, blacklist_cache_time, client>>]_vars

\* the good token, given to the blocking verify in Local mode
C14_Witness ==
    /\ use_local
    /\ op = "verify_token"
    /\ tok = GoodToken
    /\ Rejected("USE_VERIFY_TOKEN_ASYNC")

(* C15: in Remote mode verify_token_async gives, for the same token,       *)
(* caches, clock and endpoint responses, the outcome verify_token gives,   *)
(* with the same fetches and the same effect on the caches and the client. *)
C15_AsyncEqualsBlocking ==
    [][(~use_local /\ op' = "verify_token_async") =>
          \E rc \in ResponsesIf(Called("config")', ConfigBodies) :
          \E rj \in ResponsesIf(Called("jwks")', JwksDocs) :
          \E rb \in ResponsesIf(Called("blacklist")', BlacklistBodies) :
             LET r == VerifyToken(Self, tok', rc, rj, rb)
             IN  /\ res' = Outcome(r)
                 /\ calls' = r.self.calls
                 /\ jwks_cache' = r.self.jwks_cache
                 /\ jwks_cache_time' = r.self.jwks_cache_time
                 /\ config_cache' = r.self.config_cache
                 /\ config_cache_time' = r.self.config_cache_time
                 /\ blacklist_cache' = r.self.blacklist_cache
                 /\ blacklist_cache_time' = r.self.blacklist_cache_time
                 /\ client' = r.self.client]_vars

\* verify_token_async in Remote mode fetched all three documents and accepted
C15_Witness ==
    /\ ~use_local
    /\ op = "verify_token_async"
    /\ calls = <<"config", "jwks", "decode", "blacklist">>
    /\ Accepted

(* C16: a token without an exp claim is never Accepted, in either mode.    *)
C16_NoExpNeverAccepted ==
    Accepted => "exp" \in DOMAIN tok.payload

(* C17: a token whose signature does not match the key in use is rejected  *)
(* with JWT_DECODE_ERROR by verify_token (Remote) and verify_token_async   *)
(* (both modes), whatever its claims; nothing after the decode runs.       *)
C17_BadSignatureIsDecodeError ==
    (Decoded /\ tok.key # KeyInUse) =>
        /\ Rejected("JWT_DECODE_ERROR")
        /\ calls[Len(calls)] = "decode"

\* a wrongly signed token whose fingerprint is in the cached revocation list
C17_Witness ==
    /\ ~use_local
    /\ tok = EditToken(RevocableToken, "other_key")
    /\ Decoded
    /\ KeyInUse = "your-secret-key"
    /\ ReportedRevoked
    /\ Rejected("JWT_DECODE_ERROR")

-----------------------------------------------------------------------------
\* the token is a JWT with an exp claim
HasExp(t) == t # MalformedToken /\ "exp" \in DOMAIN t.payload

\* the expiry judgement of verify at this clock: jwt.decode of the token against its
\* own key, algorithm and audience raises
ExpiredForVerify(t) ==
    JwtDecode(Self, t, t.key, {t.alg}, PyNone, Get(t.payload, "aud", PyNone)).exc # "none"

(* C18: is_token_expired and verify agree on the expiry of a token at the  *)
(* same clock value: for a token with an exp claim is_token_expired        *)
(* returns true exactly when verify rejects the token as expired, and it   *)
(* returns true whenever exp lies in the past.                             *)
C18_ExpiryJudgementsAgree ==
    (op = "is_token_expired" /\ HasExp(tok)) =>
        /\ res.status = "returned"
        /\ res.value = ExpiredForVerify(tok)
        /\ tok.payload.exp < now => res.value = TRUE

(* C19: get_token_expiry returns the timestamp of the exp claim of every   *)
(* parsable token that has one, in the future or in the past, and None     *)
(* only for an unparsable token or one without exp.                        *)
C19_GetExpiryReturnsExp ==
    op = "get_token_expiry" =>
        /\ res.status = "returned"
        /\ res.value = (IF HasExp(tok) THEN Some(tok.payload.exp) ELSE None)

(* C20: is_token_expired is total: for every string it returns a boolean   *)
(* and raises nothing; true if the token is unparsable, has no exp or has  *)
(* exp in the past, false otherwise.                                       *)
C20_IsExpiredTotal ==
    op = "is_token_expired" =>
        /\ res.status = "returned"
        /\ res.value \in BOOLEAN
        /\ res.value = (~HasExp(tok) \/ tok.payload.exp < now)

-----------------------------------------------------------------------------
(* C21 as stated: extract_user_info and get_token_expiry return a value    *)
(* for every string and raise nothing; for a string that is no JWT         *)
(* extract_user_info returns success=false without data and                *)
(* get_token_expiry returns None.                                          *)
C21_UtilitiesNeverRaise ==
    /\ op = "extract_user_info" =>
           /\ res.status = "returned"
           /\ tok = MalformedToken =>
                  (~res.value.success /\ res.value.data = None)
    /\ op = "get_token_expiry" =>
           /\ res.status = "returned"
           /\ tok = MalformedToken => res.value = None

\* the token passes the signature stage of the call that decoded it
PassedSignature == Decoded /\ SignatureOk(tok)

(* C22 as stated: a token that passes the signature stage and lacks roles  *)
(* is rejected with MISSING_REQUIRED_FIELD reporting the field roles.      *)
C22_MissingRolesReportsRoles ==
    (PassedSignature /\ "roles" \notin DOMAIN tok.payload) =>
        /\ Rejected("MISSING_REQUIRED_FIELD")
        /\ res.value.data.details = [missing_field |-> "roles"]

(* C22 as amended: a token that passes the signature stage and lacks roles *)
(* is rejected with MISSING_REQUIRED_FIELD; the field reported is the      *)
(* first one missing in the order sub, username, roles, hence roles        *)
(* exactly when sub and username are present.                              *)
C22_MissingRolesReportsFirstMissing ==
    (PassedSignature /\ "roles" \notin DOMAIN tok.payload) =>
        /\ Rejected("MISSING_REQUIRED_FIELD")
        /\ res.value.data.reason = "validation_error"
        /\ res.value.data.details =
               [missing_field |->
                   IF "sub" \notin DOMAIN tok.payload THEN "sub"
                   ELSE IF "username" \notin DOMAIN tok.payload THEN "username"
                   ELSE "roles"]

\* a token that lacks sub and roles: sub is the field reported
C22_Witness ==
    /\ PassedSignature
    /\ tok = EditToken(EditToken(GoodToken, "no_sub"), "no_roles")
    /\ Rejected("MISSING_REQUIRED_FIELD")
    /\ res.value.data.details.missing_field = "sub"

(* C23: a token that passes the signature stage, has sub, username and     *)
(* roles, and whose roles is no list (a string, a number, null) is         *)
(* rejected with INVALID_FIELD_TYPE naming the field roles and the         *)
(* expected type list.                                                     *)
C23_NonListRolesIsInvalidType ==
    (/\ PassedSignature
     /\ {"sub", "username", "roles"} \subseteq DOMAIN tok.payload
     /\ tok.payload.roles \notin {"[admin]", "[]"}) =>
        /\ Rejected("INVALID_FIELD_TYPE")
        /\ res.value.data.details = [field |-> "roles", expected_type |-> "list"]

\* roles is null
C23_Witness ==
    /\ PassedSignature
    /\ tok = EditToken(GoodToken, "roles_null")
    /\ Rejected("INVALID_FIELD_TYPE")

(* C24: a token that passes the signature and shape stages, is not         *)
(* disabled, and carries a type claim other than "access" is rejected with *)
(* INVALID_TOKEN_TYPE carrying the expected "access" and the actual value; *)
(* without a type claim the type check passes.                             *)
C24_PresentTypeMustBeAccess ==
    (PassedSignature /\ ShapeOk(tok) /\ ActiveOk(tok)) =>
        /\ ("type" \in DOMAIN tok.payload /\ tok.payload.type # "access") =>
               /\ Rejected("INVALID_TOKEN_TYPE")
               /\ res.value.data.expected_type = "access"
               /\ res.value.data.actual_type = tok.payload.type
        /\ "type" \notin DOMAIN tok.payload => ~Rejected("INVALID_TOKEN_TYPE")

(* C25: a token that passes the signature and shape stages is rejected     *)
(* with USER_INACTIVE, naming the user, when its is_active claim is        *)
(* present and false, and is not rejected as inactive when it has no       *)
(* is_active claim.                                                        *)
C25_InactiveOnlyWhenFalse ==
    (PassedSignature /\ ShapeOk(tok)) =>
        /\ ("is_active" \in DOMAIN tok.payload /\ tok.payload.is_active = FALSE) =>
               /\ Rejected("USER_INACTIVE")
               /\ res.value.data.details = [user_id |-> tok.payload.sub]
        /\ "is_active" \notin DOMAIN tok.payload => ~Rejected("USER_INACTIVE")

\* a disabled user's refresh token
C25_Witness ==
    /\ PassedSignature
    /\ tok = EditToken(EditToken(GoodToken, "inactive"), "refresh")
    /\ Rejected("USER_INACTIVE")

(* C26: a token that passes the signature, shape and semantic stages, is   *)
(* access-typed or untyped and is found not revoked is Accepted, and every *)
(* Accepted result reports the payload's sub, username, roles, email,      *)
(* phone, full_name, exp, iat, iss and aud (None where absent) and its     *)
(* is_active / is_superuser, true / false where absent.                    *)
C26_AcceptedRoundTrip ==
    /\ (/\ PassedSignature /\ ShapeOk(tok) /\ ActiveOk(tok)
        /\ ("type" \in DOMAIN tok.payload => tok.payload.type = "access")
        /\ ~ReportedRevoked
        /\ use_local => ~Called("store_failed")) => Accepted
    /\ Accepted =>
           LET p == tok.payload
               d == res.value.data
           IN  /\ d.user_id = p.sub
               /\ d.username = p.username
               /\ d.roles = p.roles
               /\ d.email = Get(p, "email", PyNone)
               /\ d.phone = Get(p, "phone", PyNone)
               /\ d.full_name = Get(p, "full_name", PyNone)
               /\ ("exp" \in DOMAIN p => d.exp = p.exp)
               /\ ("exp" \notin DOMAIN p => d.exp = PyNone)
               /\ d.iat = p.iat
               /\ d.iss = p.iss
               /\ ("aud" \in DOMAIN p => d.aud = p.aud)
               /\ d.is_active = Get(p, "is_active", TRUE)
               /\ d.is_superuser = Get(p, "is_superuser", FALSE)

\* the token that carries every reported claim, accepted
C26_Witness ==
    /\ tok = EditToken(GoodToken, "profile")
    /\ Accepted
    /\ res.value.data.email = "alice@example.com"
    /\ res.value.data.is_superuser

\* the entries of a key-set that are usable symmetric keys
UsableKeys(keys) ==
    {i \in DOMAIN keys : Get(keys[i], "kty", PyNone) = "oct" /\ Get(keys[i], "k", "") # ""}

\* a Remote verify_token obtained the config and the key-set
GotTrustMaterial ==
    /\ ~use_local
    /\ IsVerify
    /\ ~TrustFetchFailed
    /\ config_cache # None
    /\ jwks_cache # None

(* C27: in Remote mode the key of a verification is the first usable       *)
(* symmetric key of the key-set (kty "oct", non-empty key bytes), wherever *)
(* it stands in the document, and the result is NO_SECRET_KEY if and only  *)
(* if the document holds no usable symmetric key.                          *)
C27_FirstUsableKey ==
    GotTrustMaterial =>
        LET keys == jwks_cache[1].keys
        IN  /\ Rejected("NO_SECRET_KEY") <=> UsableKeys(keys) = {}
            /\ UsableKeys(keys) # {} => Decoded

Cancelled == op = "verify_token_async_cancelled"

(* C30: a verify_token_async call cancelled while suspended (on the store  *)
(* query in Local mode, on the executor's future in Remote mode) gives its *)
(* caller no result: neither Accepted nor a rejection is returned, the     *)
(* cancellation is raised.                                                 *)
C30_CancelledGivesNoOutcome ==
    Cancelled =>
        /\ res.status = "raised"
        /\ res.exc = "CancelledError"
        /\ use_local => Called("store_cancelled")

\* the good token's verification, cancelled on the store query
C30_Witness ==
    /\ use_local
    /\ Cancelled
    /\ tok = GoodToken
    /\ calls = <<"decode", "store", "store_cancelled">>
    /\ res.status = "raised"

-----------------------------------------------------------------------------
\* a validator whose caches hold the given snapshots, fetched just now; an absent
\* snapshot leaves that cache empty
Snapshot(c, j, b) ==
    [Self EXCEPT !.config_cache = c, !.config_cache_time = IF c = None THEN None ELSE Some(now),
                 !.jwks_cache = j, !.jwks_cache_time = IF j = None THEN None ELSE Some(now),
                 !.blacklist_cache = b,
                 !.blacklist_cache_time = IF b = None THEN None ELSE Some(now)]

\* the snapshots of an artifact that some fetch has returned, or none when the fetch fails
Snapshots(a) == {Some(x) : x \in served[a]} \cup {None}

\* the outcomes of verify_token run alone, start to end, on fetched snapshots, an
\* artifact without snapshot being one whose fetch fails
SequentialOutcomes(token) ==
    {Outcome(VerifyToken(Snapshot(c, j, b), token, Http500, Http500, Http500)) :
        c \in Snapshots("config"), j \in Snapshots("jwks"), b \in Snapshots("blacklist")}

\* every thread has finished and handed over its result
AllFinished == \A t \in Threads : threads[t].pc = "idle"

\* C29: concurrent cache misses are harmless.  Whatever the interleaving of the
\* threads' steps, (a) a getter about to return reads a document that some fetch
\* returned, and the documents verify_token holds are such documents; (b) every
\* finished verification has the outcome verify_token gives when run alone on some
\* fetched snapshots; (c) once all callers have finished, each cache is either
\* untouched, value and timestamp both absent, or holds a fetched document together
\* with a timestamp, and a fetched artifact is cached.
C29_ConcurrentMissesHarmless ==
    /\ \A t \in Threads, a \in Artifacts :
          threads[t].pc = At(a, "return")
              => CacheOf(a) # None /\ CacheOf(a)[1] \in served[a]
    /\ \A t \in Threads :
          /\ threads[t].config # None => threads[t].config[1] \in served["config"]
          /\ threads[t].jwks # None => threads[t].jwks[1] \in served["jwks"]
          /\ threads[t].pc = "done" /\ threads[t].op = "get_jwks"
                 /\ threads[t].result.status = "returned"
                 => /\ threads[t].result.value # None
                    /\ threads[t].result.value[1] \in served["jwks"]
          /\ threads[t].pc = "done" /\ threads[t].op = "verify_token"
                 => threads[t].result \in SequentialOutcomes(threads[t].token)
    /\ AllFinished =>
          \A a \in Artifacts :
             /\ CacheOf(a) = None <=> TimeOf(a) = None
             /\ CacheOf(a) # None => CacheOf(a)[1] \in served[a]
             /\ served[a] # {} => CacheOf(a) # None

\* two verifications missed the key-set together, each fetched its own document and
\* stored it, the second overwriting the first; they finished with different outcomes
C29_Witness ==
    /\ \A t \in Threads : threads[t].pc = "done" /\ threads[t].op = "verify_token"
    /\ threads[1].jwks # None
    /\ threads[2].jwks # None
    /\ threads[1].jwks # threads[2].jwks
    /\ jwks_cache = threads[2].jwks
    /\ threads[1].result # threads[2].result
    /\ threads[1].result.status = "returned"
    /\ threads[1].result.value.success
    /\ threads[1].result.value.data.valid

-----------------------------------------------------------------------------
\* the three endpoints of the issuer, as the log names them
Endpoints == {"config", "jwks", "blacklist"}

(* C31: in Local mode, after any sequence of operations, the validator has *)
(* made no HTTP request and holds no network client, its key-set, config    *)
(* and revocation cache fields with their timestamps are empty, and        *)
(* get_jwks and get_jwt_config return the documents built from the         *)
(* configured secret, algorithm, issuer and audience, the same on every    *)
(* call.                                                                   *)
C31_LocalMakesNoRequest ==
    use_local =>
        /\ \A e \in Endpoints : ~Called(e)
        /\ client = None
        /\ jwks_cache = None /\ jwks_cache_time = None
        /\ config_cache = None /\ config_cache_time = None
        /\ blacklist_cache = None /\ blacklist_cache_time = None
        /\ op = "get_jwks" =>
              /\ res.status = "returned"
              /\ Len(res.value.keys) = 1
              /\ res.value.keys[1].kty = "oct"
              /\ UrlsafeB64Decode(res.value.keys[1].k) = "your-secret-key"
              /\ res.value.keys[1].alg = "HS256"
        /\ op = "get_jwt_config" =>
              /\ res.status = "returned"
              /\ res.value = [algorithm |-> "HS256", issuer |-> "ml-user-service",
                              audience |-> "microservices"]

\* a Local validator answers get_jwks after time has passed
C31_Witness ==
    /\ use_local
    /\ op = "get_jwks"
    /\ now = MaxTime
    /\ res.status = "returned"

-----------------------------------------------------------------------------
(* C32: whatever the interleaving of getters, verifications and            *)
(* refresh_cache on one validator, for each artifact a timestamp that the  *)
(* freshness test accepts is paired with a non-null cached value; no       *)
(* getter returns a null document, and the revocation check does not read  *)
(* a dropped list as a fresh empty list.                                   *)
C32_FreshTimeHasValue ==
    /\ \A a \in Artifacts : IsCacheValid(TimeOf(a)) => CacheOf(a) # None
    /\ \A t \in Threads :
          /\ threads[t].pc = "done" /\ threads[t].op = "get_jwks"
                 /\ threads[t].result.status = "returned"
                 => threads[t].result.value # None
          /\ threads[t].pc = At("blacklist", "return") => blacklist_cache # None

-----------------------------------------------------------------------------
(* C33: under any interleaving of fetches and close() calls, every client  *)
(* the validator created is the one it holds or has been closed; with all  *)
(* calls finished and no client held, no created client is open.           *)
C33_NoClientLeaked ==
    /\ \A n \in DOMAIN clients : clients[n] = "open" => client = Some(n)
    /\ (AllFinished /\ client = None) => \A n \in DOMAIN clients : clients[n] = "closed"

-----------------------------------------------------------------------------
\* the token of the call stands the signature, shape and semantic stages
PassedEarlierStages ==
    /\ PassedSignature
    /\ ShapeOk(tok)
    /\ SemanticOk(tok)

(* C34: in Remote mode a verification whose revocation-list fetch fails    *)
(* stores the empty list with the timestamp of that moment, whatever list  *)
(* was cached before, and accepts its token; while that empty list is      *)
(* fresh, a verification makes no revocation-list fetch, leaves the list   *)
(* and its timestamp alone, and accepts every token that passes the        *)
(* earlier stages.                                                         *)
C34_FailedFetchIsCached ==
    [][(~use_local /\ IsVerify') =>
          /\ Called("blacklist_failed")' =>
                /\ blacklist_cache' = Some(<<>>)
                /\ blacklist_cache_time' = Some(now)
                /\ Accepted'
          /\ (blacklist_cache = Some(<<>>) /\ Fresh(blacklist_cache_time)
                  /\ PassedEarlierStages') =>
                /\ ~Called("blacklist")'
                /\ Accepted'
                /\ UNCHANGED <<blacklist_cache, blacklist_cache_time>>]_vars

\* the token the issuer has revoked is accepted by the call whose list fetch failed
C34_Witness ==
    /\ ~use_local
    /\ op = "verify_token"
    /\ tok = RevocableToken
    /\ Called("blacklist_failed")
    /\ blacklist_cache = Some(<<>>)
    /\ Accepted

-----------------------------------------------------------------------------
\* in the log of the call every entry a comes before every entry b
Before(a, b) ==
    \A i, j \in DOMAIN calls : (calls[i] = a /\ calls[j] = b) => i < j

ConfigFetchCodes == {"CONFIG_FETCH_ERROR", "CONFIG_FETCH_EXCEPTION"}

(* C35: a Remote verification asks for the config before the key-set and   *)
(* for both before it decodes the token, and checks revocation last.  If   *)
(* the config fetch fails, the call contacts neither the key-set endpoint  *)
(* nor the revocation endpoint, does not decode the token and reports the  *)
(* config-fetch error; if the key-set fetch fails or the key-set has no    *)
(* usable key, the token is not decoded and the revocation endpoint is not *)
(* contacted.                                                              *)
C35_ConfigThenKeysThenDecode ==
    (~use_local /\ IsVerify) =>
        /\ Before("config", "jwks")
        /\ Before("config", "decode")
        /\ Before("jwks", "decode")
        /\ Before("decode", "blacklist")
        /\ Called("config_failed") =>
              /\ ~Called("jwks")
              /\ ~Called("blacklist")
              /\ ~Called("decode")
              /\ ReturnedDict
              /\ ErrorCode \in ConfigFetchCodes
        /\ (Called("jwks_failed") \/ (ReturnedDict /\ ErrorCode = "NO_SECRET_KEY")) =>
              /\ ~Called("decode")
              /\ ~Called("blacklist")

\* the config fetch failed in a call that had no fresh key-set either
C35_Witness ==
    /\ ~use_local
    /\ op = "verify_token"
    /\ Called("config_failed")
    /\ ~IsCacheValid(jwks_cache_time)
    /\ ReturnedDict
    /\ ErrorCode = "CONFIG_FETCH_ERROR"

-----------------------------------------------------------------------------
(* C36: the maintenance operations change only their own state.  close     *)
(* changes only the held client; refresh_blacklist_cache drops only the    *)
(* revocation list and its timestamp; refresh_cache drops the three        *)
(* artifacts with their timestamps and leaves the client; none of them     *)
(* contacts an endpoint or changes the validation mode.  (The TTLs are     *)
(* fixed at construction and no operation assigns them.)                   *)
C36_MaintenanceFrame ==
    [][/\ op' = "close" =>
             /\ client' = None
             /\ calls' = <<>>
             /\ UNCHANGED <<use_local, jwks_cache, jwks_cache_time, config_cache,
                            config_cache_time, blacklist_cache, blacklist_cache_time>>
       /\ op' = "refresh_blacklist_cache" =>
             /\ blacklist_cache' = None
             /\ blacklist_cache_time' = None
             /\ calls' = <<>>
             /\ UNCHANGED <<use_local, jwks_cache, jwks_cache_time, config_cache,
                            config_cache_time, client>>
       /\ op' = "refresh_cache" =>
             /\ jwks_cache' = None /\ jwks_cache_time' = None
             /\ config_cache' = None /\ config_cache_time' = None
             /\ blacklist_cache' = None /\ blacklist_cache_time' = None
             /\ calls' = <<>>
             /\ UNCHANGED <<use_local, client>>]_vars

\* refresh_blacklist_cache has run on a validator that holds a key-set, a config and
\* a client
C36_Witness ==
    /\ op = "refresh_blacklist_cache"
    /\ jwks_cache # None
    /\ config_cache # None
    /\ client # None
    /\ blacklist_cache = None

-----------------------------------------------------------------------------
\* the three required fields are in the payload
HasRequired(p) == {"sub", "username", "roles"} \subseteq DOMAIN p

\* roles is a JSON array
RolesIsList(p) == p.roles \in {"[admin]", "[]"}

\* the payload says the user is disabled
Inactive(p) == "is_active" \in DOMAIN p /\ ~p.is_active

(* C37: for a token that passes the signature stage the rejection reasons  *)
(* of the shape and semantic stages have a fixed precedence: a missing sub *)
(* is reported before a missing username, that before a missing roles,     *)
(* any missing field before a roles that is no list, that before a         *)
(* disabled user, and a disabled user before a wrong token type.           *)
C37_RejectionPrecedence ==
    PassedSignature =>
        LET p == tok.payload
        IN  /\ "sub" \notin DOMAIN p =>
                  /\ Rejected("MISSING_REQUIRED_FIELD")
                  /\ res.value.data.details = [missing_field |-> "sub"]
            /\ ("sub" \in DOMAIN p /\ "username" \notin DOMAIN p) =>
                  /\ Rejected("MISSING_REQUIRED_FIELD")
                  /\ res.value.data.details = [missing_field |-> "username"]
            /\ ({"sub", "username"} \subseteq DOMAIN p /\ "roles" \notin DOMAIN p) =>
                  /\ Rejected("MISSING_REQUIRED_FIELD")
                  /\ res.value.data.details = [missing_field |-> "roles"]
            /\ (HasRequired(p) /\ ~RolesIsList(p)) => Rejected("INVALID_FIELD_TYPE")
            /\ (HasRequired(p) /\ RolesIsList(p) /\ Inactive(p)) => Rejected("USER_INACTIVE")
            /\ (HasRequired(p) /\ RolesIsList(p) /\ ~Inactive(p)
                   /\ "type" \in DOMAIN p /\ p.type \notin {"", "access"}) =>
                  Rejected("INVALID_TOKEN_TYPE")

\* a token of a disabled user and of type "refresh" is reported as USER_INACTIVE
C37_Witness ==
    /\ PassedSignature
    /\ tok = EditToken(EditToken(GoodToken, "inactive"), "refresh")
    /\ Rejected("USER_INACTIVE")

-----------------------------------------------------------------------------
\* the Remote call verified with the key, algorithm, issuer and audience that the
\* Local pipeline reads from the settings, and its revocation check got an answer
SameTrustAsLocal ==
    /\ GotTrustMaterial
    /\ KeyInUse = jwt_secret_key
    /\ Get(ConfigInUse, "algorithm", "HS256") = jwt_algorithm
    /\ Get(ConfigInUse, "issuer", PyNone) = app_name
    /\ Get(ConfigInUse, "audience", PyNone) = "microservices"
    /\ ~Called("blacklist_failed")
    /\ ~Called("blacklist_check_failed")

\* the revocation status the Remote call saw, as an answer of the local store
StatusSeen ==
    IF Called("decode") /\ blacklist_cache # None /\ blacklist_cache # Some(NotIterable)
           /\ InList(Sha256(tok), blacklist_cache[1])
    THEN "revoked"
    ELSE "clear"

(* C38: the two modes implement one pipeline.  A Remote verification that  *)
(* ran with the key, algorithm, issuer and audience of the Local settings  *)
(* returns, for every token, the result the Local pipeline returns at the  *)
(* same time for the same revocation status: the same accepted claims or   *)
(* the same rejection.                                                     *)
C38_ModesAgree ==
    (~use_local /\ IsVerify /\ SameTrustAsLocal) =>
        res = Outcome(VerifyTokenLocalAsync(Self, tok, StatusSeen))

\* a revoked token, rejected alike by both pipelines
C38_Witness ==
    /\ ~use_local
    /\ op = "verify_token"
    /\ SameTrustAsLocal
    /\ StatusSeen = "revoked"
    /\ Rejected("TOKEN_BLACKLISTED")

------------------------------------------------------------------------------
(* C39 *)

\* the result dict of a verification that accepted the token
AcceptedResult(result) ==
    /\ Get(result, "success", FALSE) = TRUE
    /\ Get(Get(result, "data", EmptyDict), "valid", FALSE) = TRUE

\* the running verify_token_simple answers what the blocking verify of a new
\* validator answers to these responses, and leaves that validator's caches
SimpleAnswersAs(r) ==
    /\ calls = r.self.calls
    /\ jwks_cache = r.self.jwks_cache
    /\ config_cache = r.self.config_cache
    /\ blacklist_cache = r.self.blacklist_cache
    /\ r.exc = "none"
    /\ res = [status |-> "returned", value |-> AcceptedResult(r.value[1])]

====
